---- MODULE Spec2Model ----
(***************************************************************************)
(* Transportation optimisation model registry demo.                        *)
(*                                                                         *)
(*   TransportationLP               src/models/transportation_lp.py        *)
(*   SnowflakeTransportationModel   src/models/                            *)
(*                                     snowflake_transportation_model.py   *)
(*                                                                         *)
(* Spec    : a constructed SnowflakeTransportationModel serving predict    *)
(*           calls, one loop iteration of predict per step.                *)
(* SpecLP  : one TransportationLP object, constructed from a cost matrix   *)
(*           and a constraint set drawn from bounded sets, driven through  *)
(*           create_model / solve / get_solution_summary.                  *)
(*                                                                         *)
(* Values.  A DataFrame cell is Absent (the column is not in the frame),   *)
(* NaN (the column is there, the cell is empty), NoneV (Python None) or    *)
(* Val(x).  Quantities and unit costs are integers.  A ratio computed by   *)
(* a float division is kept exact as a pair num/den.                       *)
(*                                                                         *)
(* The LP backend (PuLP/CBC) is outside the repository.  It is modelled    *)
(* as returning status Optimal with some minimum-cost point of the         *)
(* feasible region when that region is non-empty and a non-Optimal status  *)
(* otherwise; the region is always bounded because every variable has      *)
(* lowBound=0 and occurs in one capacity row.  The constraint matrix of a  *)
(* transportation problem is totally unimodular, so every vertex of the    *)
(* region has coordinates that are integer combinations of the right-hand  *)
(* sides: the candidate points are the multiples of the gcd of the         *)
(* capacities and demands.                                                 *)
(***************************************************************************)
EXTENDS Integers, Sequences, FiniteSets, TLC

VARIABLES
    mode,          \* self.mode
    base_config,   \* self.base_config
    base0,         \* history: base_config as loaded by __init__
    pc,            \* "idle" | "running" | "raised": predict is not executing,
                   \* is executing, or was left by an exception
    input,         \* the DataFrame passed to predict, a sequence of rows
    pos,           \* how many rows iterrows() has handed to the loop
    results,       \* the local list `results` of predict
    fetched,       \* history: what the cost source answered for each row
    lp_cost,       \* TransportationLP.cost_matrix
    lp_config,     \* TransportationLP.config
    lp_model,      \* TransportationLP.model (NoModel, or the formulation)
    lp_status,     \* self.model.status
    lp_values,     \* varValue of self.variables
    lp_ret,        \* what the last method call returned or raised
    data_file,     \* the records of the CSV read by
                   \* generate_cost_matrix_from_data
    agg_call,      \* its last call: the arguments and the outcome
    cost_row,      \* the row handed to _get_cost_matrix_python_mode
    cost_call      \* its last call: the source's answer and the outcome

\* ---- further components: variables, groups and idle states ----
NotCalled == [called |-> FALSE]

\* TransportationFeatureStore.get_latest_cost_matrix
VARIABLES
    fs_versions,  \* the time-stamped versions of the costs the source holds
    fs_call  \* the last lookup: the marker passed and the outcome

fsvars == <<fs_versions, fs_call>>

FsIdle ==
    /\ fs_versions = <<>>
    /\ fs_call = NotCalled

\* SnowflakeTransportationModel.__init__: mode resolution and the feature store handle
VARIABLES
    env,  \* the environment seen by __init__: indicator variables, active session, credentials
    requested,  \* the mode argument of __init__
    constructed,  \* "no" | "yes" | "failed": __init__ not run, returned, or raised
    feature_store_manager,  \* self.feature_store_manager (NoneV or the manager)
    feature_store_initialized,  \* self._feature_store_initialized
    initialization_error,  \* self._initialization_error
    init_attempts  \* history: how many times _init_feature_store ran

initvars == <<env, requested, constructed, feature_store_manager, feature_store_initialized, initialization_error, init_attempts>>

InitIdle ==
    /\ env = <<>>
    /\ requested = "auto"
    /\ constructed = "no"
    /\ feature_store_manager = <<"none">>
    /\ feature_store_initialized = FALSE
    /\ initialization_error = <<"none">>
    /\ init_attempts = 0

\* register_transportation_model (src/helper/register_with_snowflake.py)
VARIABLES
    reg_env,  \* what the calls made by the function meet in the environment
    reg_pc,  \* the position in register_transportation_model
    sf_model,  \* the local sf_model: NoneV or the model it names
    reg_hist,  \* history: the outcome of each step taken so far
    reg_log  \* history: the models passed to log_model, in order

regvars == <<reg_env, reg_pc, sf_model, reg_hist, reg_log>>

RegIdle ==
    /\ reg_env = <<>>
    /\ reg_pc = "idle"
    /\ sf_model = <<"none">>
    /\ reg_hist = <<>>
    /\ reg_log = <<>>

\* SnowflakeManager (src/helper/snowflake_utils.py) and the threads calling the global instance
VARIABLES
    mgr_connection,  \* self._connection: NoneV or the connection
    mgr_session,  \* self._session: NoneV or the Snowpark session
    mgr_feature_store,  \* self._feature_store: NoneV or the feature store
    mgr_model_registry,  \* self._model_registry: NoneV or the registry
    mgr_built,  \* history: how many sessions and connections were built so far
    mgr_closed,  \* history: the sessions and connections closed so far
    mgr_created,  \* history: the sessions created since the last close_connection
    mgr_returned,  \* history: the sessions get_session returned since the last close_connection
    mgr_ret,  \* the last call on the manager and its outcome
    mgr_cursor,  \* the cursor opened by the last call: "none" | "open" | "closed"
    mgr_query,  \* history: what execute and fetchall did in the last call, when it got a cursor
    th_pc,  \* per thread: its position in get_session
    th_local  \* per thread: the session it built and has not stored yet

mgrvars == <<mgr_connection, mgr_session, mgr_feature_store, mgr_model_registry, mgr_built, mgr_closed, mgr_created, mgr_returned, mgr_ret, mgr_cursor, mgr_query, th_pc, th_local>>

MgrIdle ==
    /\ mgr_connection = <<"none">>
    /\ mgr_session = <<"none">>
    /\ mgr_feature_store = <<"none">>
    /\ mgr_model_registry = <<"none">>
    /\ mgr_built = 0
    /\ mgr_closed = {}
    /\ mgr_created = {}
    /\ mgr_returned = {}
    /\ mgr_ret = NotCalled
    /\ mgr_cursor = "none"
    /\ mgr_query = NotCalled
    /\ th_pc = <<>>
    /\ th_local = <<>>

\* predict: the temporary files of the scenarios (lines 356-417 of the model)
VARIABLES
    tmp_pc,  \* "idle" | "running" | "returned": the predict call whose files are followed
    tmp_todo,  \* the number of scenarios of that call still to process
    tmp_files,  \* the temporary files created by the call that exist
    tmp_rows  \* history: per result row appended, its kind and the scenario's files that existed then

tmpvars == <<tmp_pc, tmp_todo, tmp_files, tmp_rows>>

TmpIdle ==
    /\ tmp_pc = "idle"
    /\ tmp_todo = 0
    /\ tmp_files = {}
    /\ tmp_rows = <<>>

nvars == <<fsvars, initvars, regvars, mgrvars, tmpvars>>

\* Every further component but those of S is idle.
OthersIdle(S) ==
    /\ IF "fs" \in S THEN TRUE ELSE FsIdle
    /\ IF "init" \in S THEN TRUE ELSE InitIdle
    /\ IF "reg" \in S THEN TRUE ELSE RegIdle
    /\ IF "mgr" \in S THEN TRUE ELSE MgrIdle
    /\ IF "tmp" \in S THEN TRUE ELSE TmpIdle

fsOthers == <<initvars, regvars, mgrvars, tmpvars>>
fsRest == <<mode, base_config, base0, pc, input, pos, results, fetched, lp_cost, lp_config, lp_model, lp_status, lp_values, lp_ret, data_file, agg_call, cost_row, cost_call, initvars, regvars, mgrvars, tmpvars>>
initOthers == <<fsvars, regvars, mgrvars, tmpvars>>
initRest == <<mode, base_config, base0, pc, input, pos, results, fetched, lp_cost, lp_config, lp_model, lp_status, lp_values, lp_ret, data_file, agg_call, cost_row, cost_call, fsvars, regvars, mgrvars, tmpvars>>
regOthers == <<fsvars, initvars, mgrvars, tmpvars>>
regRest == <<mode, base_config, base0, pc, input, pos, results, fetched, lp_cost, lp_config, lp_model, lp_status, lp_values, lp_ret, data_file, agg_call, cost_row, cost_call, fsvars, initvars, mgrvars, tmpvars>>
mgrOthers == <<fsvars, initvars, regvars, tmpvars>>
mgrRest == <<mode, base_config, base0, pc, input, pos, results, fetched, lp_cost, lp_config, lp_model, lp_status, lp_values, lp_ret, data_file, agg_call, cost_row, cost_call, fsvars, initvars, regvars, tmpvars>>
tmpOthers == <<fsvars, initvars, regvars, mgrvars>>
tmpRest == <<mode, base_config, base0, pc, input, pos, results, fetched, lp_cost, lp_config, lp_model, lp_status, lp_values, lp_ret, data_file, agg_call, cost_row, cost_call, fsvars, initvars, regvars, mgrvars>>

\* ---- end of the further components ----

pvars == <<mode, base_config, base0, pc, input, pos, results, fetched>>
lvars == <<lp_cost, lp_config, lp_model, lp_status, lp_values, lp_ret>>
fvars == <<data_file, agg_call, cost_row, cost_call, nvars>>
vars == <<pvars, lvars, fvars>>

(***************************************************************************)
(* Bounds of the model.                                                    *)
(***************************************************************************)
MaxBatch == 3
MaxQty == 2
MaxCost == 1
MaxRecords == 2
MaxVersions == 3

(***************************************************************************)
(* Cells and small helpers.                                                *)
(***************************************************************************)
Absent == <<"absent">>
NaN == <<"nan">>
NoneV == <<"none">>
Val(x) == <<"val", x>>
IsVal(c) == Len(c) = 2
V(c) == c[2]

Warehouses == {"Warehouse_A", "Warehouse_B"}
Customers == {"Customer_1", "Customer_2"}

Abs(a) == IF a >= 0 THEN a ELSE -a

RECURSIVE Gcd(_, _)
Gcd(a, b) == IF b = 0 THEN a ELSE Gcd(b, a % b)

MinOf(S) == CHOOSE m \in S : \A n \in S : m <= n

Ratio(n, d) == [num |-> n, den |-> d]
ZeroRatio == Ratio(0, 1)
RatioIs(r, n) == r.num = n * r.den

\* The outcome of a call: a returned value or a raised exception.
Ok(x) == [ok |-> TRUE, v |-> x]
Raise(e) == [ok |-> FALSE, err |-> e]

\* Python None where the alternative is a dict.
NoneRec == [none |-> TRUE]
IsNoneRec(r) == "none" \in DOMAIN r

(***************************************************************************)
(* TransportationLP (src/models/transportation_lp.py).                     *)
(*                                                                         *)
(* A cost matrix is cost[w][c], rows the warehouses and columns the        *)
(* customers, its entries cells (Val(x), or NaN for an empty CSV field).   *)
(* A configuration mirrors the JSON document:                              *)
(*   config.warehouses[w].capacity, config.customers[c].demand.            *)
(***************************************************************************)
NoModel == [formulated |-> FALSE]
NoValues == [unset |-> TRUE]

MkConfig(wa, wb, c1, c2) ==
    [warehouses |-> [Warehouse_A |-> [capacity |-> wa],
                     Warehouse_B |-> [capacity |-> wb]],
     customers  |-> [Customer_1 |-> [demand |-> c1],
                     Customer_2 |-> [demand |-> c2]]]

MkCost(a1, a2, b1, b2) ==
    [Warehouse_A |-> [Customer_1 |-> a1, Customer_2 |-> a2],
     Warehouse_B |-> [Customer_1 |-> b1, Customer_2 |-> b2]]

\* create_model: "constraint <= capacity" rows, one per warehouse of the
\* cost matrix, with capacity read from self.config.
CreateModelCapacityRows(cost, config) ==
    [w \in DOMAIN cost |-> config.warehouses[w].capacity]

\* create_model: "constraint >= demand" rows, one per customer.
CreateModelDemandRows(cost, config) ==
    [c \in Customers |-> config.customers[c].demand]

CreateModel(cost, config) ==
    [formulated |-> TRUE,
     objective |-> cost,
     capacity  |-> CreateModelCapacityRows(cost, config),
     demand    |-> CreateModelDemandRows(cost, config)]

\* The sums over the two customers of a row and the two warehouses of a
\* column (the node set of the model is Warehouses x Customers).
Outflow(f, w) == f[w].Customer_1 + f[w].Customer_2
Inflow(f, c) == f.Warehouse_A[c] + f.Warehouse_B[c]

\* Capacity rows written with "<" in place of "<=".
CapacityHoldsStrictly(f, m) ==
    \A w \in DOMAIN m.capacity : Outflow(f, w) < m.capacity[w]

\* Demand rows written with "<=" in place of ">=".
DemandHoldsAtMost(f, m) == \A c \in DOMAIN m.demand : Inflow(f, c) <= m.demand[c]

\* An objective that takes the coefficient of each route from the route
\* in the opposite direction of the matrix.
ObjectiveValueTransposed(f, m) ==
    V(m.objective.Warehouse_A.Customer_1) * f.Warehouse_A.Customer_1
        + V(m.objective.Warehouse_B.Customer_1) * f.Warehouse_A.Customer_2
        + V(m.objective.Warehouse_A.Customer_2) * f.Warehouse_B.Customer_1
        + V(m.objective.Warehouse_B.Customer_2) * f.Warehouse_B.Customer_2

CapacityHolds(f, m) == \A w \in DOMAIN m.capacity : Outflow(f, w) <= m.capacity[w]

DemandHolds(f, m) == \A c \in DOMAIN m.demand : Inflow(f, c) >= m.demand[c]

\* LpVariable(var_name, lowBound=0, cat='Continuous')
LowBoundHolds(f) == \A w \in DOMAIN f : \A c \in DOMAIN f[w] : f[w][c] >= 0

Satisfies(f, m) == LowBoundHolds(f) /\ CapacityHolds(f, m) /\ DemandHolds(f, m)

\* objective += cost * self.variables[warehouse][customer]
ObjectiveValue(f, m) ==
    LET term(w, c) == V(m.objective[w][c]) * f[w][c]
    IN term("Warehouse_A", "Customer_1") + term("Warehouse_A", "Customer_2")
        + term("Warehouse_B", "Customer_1") + term("Warehouse_B", "Customer_2")

ZeroFlows == [w \in Warehouses |-> [c \in Customers |-> 0]]

\* The points the backend may return: every flow a multiple of the gcd of
\* the right-hand sides, every row within its warehouse's capacity.
GridStep(m) ==
    LET g == Gcd(Gcd(Abs(m.capacity.Warehouse_A), Abs(m.capacity.Warehouse_B)),
                 Gcd(Abs(m.demand.Customer_1), Abs(m.demand.Customer_2)))
    IN IF g = 0 THEN 1 ELSE g

Grid(hi, step) == {q \in 0..hi : q % step = 0}

CandidateRows(cap, step) ==
    {r \in [Customers -> Grid(cap, step)] : r.Customer_1 + r.Customer_2 <= cap}

Candidates(m) ==
    LET step == GridStep(m)
        RA == CandidateRows(m.capacity.Warehouse_A, step)
        RB == CandidateRows(m.capacity.Warehouse_B, step)
    IN {[Warehouse_A |-> ra, Warehouse_B |-> rb] : ra \in RA, rb \in RB}

FeasibleSet(m) == {f \in Candidates(m) : Satisfies(f, m)}

\* A backend that stops at any plan within 10 of the optimum.
BackendSolveWithGap(m) ==
    LET feas == FeasibleSet(m) IN
    IF feas = {}
    THEN {[status |-> "Infeasible", values |-> ZeroFlows]}
    ELSE LET best == MinOf({ObjectiveValue(f, m) : f \in feas})
         IN {[status |-> "Optimal", values |-> f] :
                 f \in {g \in feas : ObjectiveValue(g, m) <= best + 10}}

\* self.model.solve(): the status and the values the backend leaves in the
\* variables (readsol starts every variable at 0).  Defined for numeric
\* objective coefficients; what the backend does with a NaN coefficient is
\* not fixed by the repository and no input explored here reaches it.
BackendSolve(m) ==
    LET feas == FeasibleSet(m) IN
    IF feas = {}
    THEN {[status |-> "Infeasible", values |-> ZeroFlows]}
    ELSE LET best == MinOf({ObjectiveValue(f, m) : f \in feas})
         IN {[status |-> "Optimal", values |-> f] :
                 f \in {g \in feas : ObjectiveValue(g, m) = best}}

\* A solve() that formulates anew on every call.
SolveModelRebuilding(model, cost, config) == CreateModel(cost, config)

\* solve(): "if self.model is None: self.create_model()"
SolveModel(model, cost, config) ==
    IF ~model.formulated THEN CreateModel(cost, config) ELSE model

\* A solve() that raises when the backend finds no plan.
SolveReturnRaising(out) ==
    IF out.status = "Optimal" THEN Ok(TRUE) ELSE Raise("PulpSolverError")

\* solve(): prints the status and value(self.model.objective), then
\* "return self.model.status == LpStatusOptimal"
SolveReturn(out) == Ok(out.status = "Optimal")

\* warehouse_total / capacity, customer_total / demand
Divide(n, d) == IF d = 0 THEN Raise("ZeroDivisionError") ELSE Ok(Ratio(n, d))

\* A summary computed after any solve, whatever status it ended with.
GetSolutionSummaryOfAnySolve(model, status, values, config) ==
    IF ~model.formulated \/ status = "NotSolved" THEN Ok(NoneRec)
    ELSE IF \/ \E w \in Warehouses : config.warehouses[w].capacity = 0
            \/ \E c \in Customers : config.customers[c].demand = 0
    THEN Raise("ZeroDivisionError")
    ELSE Ok([total_cost |-> ObjectiveValue(values, model),
             shipments |-> values,
             warehouse_utilization |->
                 [w \in Warehouses |->
                     [used |-> Outflow(values, w),
                      capacity |-> config.warehouses[w].capacity,
                      utilization_rate |->
                          Ratio(Outflow(values, w), config.warehouses[w].capacity)]],
             customer_satisfaction |->
                 [c \in Customers |->
                     [received |-> Inflow(values, c),
                      demand |-> config.customers[c].demand,
                      satisfaction_rate |->
                          Ratio(Inflow(values, c), config.customers[c].demand)]]])

\* get_solution_summary(): None unless a model exists with status Optimal.
GetSolutionSummary(model, status, values, config) ==
    IF ~model.formulated \/ status # "Optimal" THEN Ok(NoneRec)
    ELSE
      LET util == [w \in Warehouses |->
                     Divide(Outflow(values, w), config.warehouses[w].capacity)]
          sat == [c \in Customers |->
                     Divide(Inflow(values, c), config.customers[c].demand)]
      IN IF \E w \in Warehouses : ~util[w].ok THEN Raise("ZeroDivisionError")
         ELSE IF \E c \in Customers : ~sat[c].ok THEN Raise("ZeroDivisionError")
         ELSE Ok([total_cost |-> ObjectiveValue(values, model),
                  shipments |-> values,
                  warehouse_utilization |->
                      [w \in Warehouses |->
                          [used |-> Outflow(values, w),
                           capacity |-> config.warehouses[w].capacity,
                           utilization_rate |-> util[w].v]],
                  customer_satisfaction |->
                      [c \in Customers |->
                          [received |-> Inflow(values, c),
                           demand |-> config.customers[c].demand,
                           satisfaction_rate |-> sat[c].v]]])

(***************************************************************************)
(* One TransportationLP object and its methods.  lp_ret records the last   *)
(* call and its outcome.                                                   *)
(***************************************************************************)
Quantities == 0..MaxQty
CostValues == 0..MaxCost

\* A configuration document naming a customer or a warehouse for which the
\* cost CSV has no column or row.
WithCustomer3(config, d) ==
    [config EXCEPT !.customers =
        [c \in Customers \cup {"Customer_3"} |->
            IF c = "Customer_3" THEN [demand |-> d] ELSE config.customers[c]]]

WithWarehouseC(config, cap) ==
    [config EXCEPT !.warehouses =
        [w \in Warehouses \cup {"Warehouse_C"} |->
            IF w = "Warehouse_C" THEN [capacity |-> cap] ELSE config.warehouses[w]]]

ExtraNodeConfigs ==
    {WithCustomer3(MkConfig(wa, 0, c1, 0), MaxQty) :
        wa \in Quantities, c1 \in Quantities}
    \cup {WithWarehouseC(MkConfig(wa, 0, c1, 0), MaxQty) :
        wa \in Quantities, c1 \in Quantities}

LPConfigs ==
    {MkConfig(wa, wb, c1, c2) : wa \in Quantities, wb \in Quantities,
                                c1 \in Quantities, c2 \in Quantities}
    \cup ExtraNodeConfigs

LPCosts ==
    {MkCost(Val(a1), Val(a2), Val(b1), Val(b2)) :
        a1 \in CostValues, a2 \in CostValues, b1 \in CostValues, b2 \in CostValues}

Called(name, outcome) == [call |-> name, out |-> outcome]

\* __init__: load_data, load_config, self.model = None, self.variables = {}
LPConstructed(cost, config) ==
    /\ lp_cost = cost
    /\ lp_config = config
    /\ lp_model = NoModel
    /\ lp_status = "NotSolved"
    /\ lp_values = NoValues
    /\ lp_ret = Called("__init__", Ok(NoneRec))

LPCreateModel ==
    /\ lp_model' = CreateModel(lp_cost, lp_config)
    /\ lp_status' = "NotSolved"
    /\ lp_values' = NoValues
    /\ lp_ret' = Called("create_model", Ok(NoneRec))
    /\ UNCHANGED <<lp_cost, lp_config, pvars, fvars>>

LPSolve ==
    LET m == SolveModel(lp_model, lp_cost, lp_config) IN
    \E out \in BackendSolve(m) :
        /\ lp_model' = m
        /\ lp_status' = out.status
        /\ lp_values' = out.values
        /\ lp_ret' = Called("solve", SolveReturn(out))
        /\ UNCHANGED <<lp_cost, lp_config, pvars, fvars>>

LPGetSolutionSummary ==
    /\ lp_ret' = Called("get_solution_summary",
                        GetSolutionSummary(lp_model, lp_status, lp_values, lp_config))
    /\ UNCHANGED <<lp_cost, lp_config, lp_model, lp_status, lp_values, pvars, fvars>>

(***************************************************************************)
(* SnowflakeTransportationModel.predict                                    *)
(* (src/models/snowflake_transportation_model.py).                         *)
(*                                                                         *)
(* A row of the input frame is a record of cells, one per column the       *)
(* model reads.  The cost source (feature store) is outside the            *)
(* repository: its answer to one lookup is an input of the step, either a  *)
(* raised error or a full cost matrix.                                     *)
(***************************************************************************)
CapacityColumns == {"warehouse_a_capacity", "warehouse_b_capacity",
                    "customer_1_demand", "customer_2_demand"}
CostColumns == {"cost_a_to_1", "cost_a_to_2", "cost_b_to_1", "cost_b_to_2"}
Columns == {"scenario_name", "use_feature_store", "feature_timestamp"}
               \cup CapacityColumns \cup CostColumns

\* "col in row"
Has(row, col) == row[col] # Absent

\* row.get(col, default)
Get(row, col, default) == IF Has(row, col) THEN row[col] ELSE default

\* Python truthiness of a flag cell: NaN is truthy, None and False are not.
Truthy(cell) == cell # NoneV /\ cell # Val(FALSE)

DefaultName(k) == "scenario_" \o ToString(k)

\* scenario_name = row.get('scenario_name', f'scenario_{len(results)}')
ScenarioName(row, k) == Get(row, "scenario_name", Val(DefaultName(k)))

\* safe_scenario_name = scenario_name if scenario_name is not None else ...
SafeScenarioName(name, k) == IF name # NoneV THEN name ELSE Val(DefaultName(k))

\* datetime.fromisoformat on a string cell; any other cell is kept as it is.
IsoStrings == {"2024-01-15T00:00:00"}

FromIsoFormat(str) ==
    IF str \in IsoStrings THEN Ok(<<"datetime", str>>) ELSE Raise("ValueError")

\* A timestamp cell is None, NaN or a string:
\* "if feature_timestamp and isinstance(feature_timestamp, str)"
ParseTimestamp(row) ==
    LET ts == Get(row, "feature_timestamp", NoneV) IN
    IF IsVal(ts) /\ V(ts) # "" THEN FromIsoFormat(V(ts)) ELSE Ok(ts)

\* int(row[col]): an empty cell (NaN) or None does not convert.
ToInt(cell) ==
    IF IsVal(cell) THEN Ok(V(cell))
    ELSE IF cell = NaN THEN Raise("ValueError") ELSE Raise("TypeError")

\* Lines 326-335 on the copy `config`: each present column replaces one
\* value, the first cell that does not convert raises.
ApplyOverrides(config, row) ==
    LET over(col, current) == IF Has(row, col) THEN ToInt(row[col]) ELSE Ok(current)
        wa == over("warehouse_a_capacity", config.warehouses.Warehouse_A.capacity)
        wb == over("warehouse_b_capacity", config.warehouses.Warehouse_B.capacity)
        c1 == over("customer_1_demand", config.customers.Customer_1.demand)
        c2 == over("customer_2_demand", config.customers.Customer_2.demand)
    IN IF ~wa.ok THEN wa
       ELSE IF ~wb.ok THEN wb
       ELSE IF ~c1.ok THEN c1
       ELSE IF ~c2.ok THEN c2
       ELSE Ok(MkConfig(wa.v, wb.v, c1.v, c2.v))

\* A predict without the copy: the overrides are written to the template.
TemplateAliased(template, config) == IF config.ok THEN config.v ELSE template

\* config = json.loads(json.dumps(self.base_config)): the overrides are
\* written to a copy, so the template held by the model stays as it was.
\* `config` is the outcome of ApplyOverrides on that copy.
TemplateAfterOverrides(template, config) == template

\* has_cost_overrides = any(col in row for col in [...])
HasCostOverrides(row) == \E col \in CostColumns : Has(row, col)

UseFeatureStore(row) == Truthy(Get(row, "use_feature_store", Val(TRUE)))

\* Whether _get_cost_matrix_from_feature_store is called for this row.
ConsultsSource(md, row) == md = "python" /\ UseFeatureStore(row)

NotConsulted == [consulted |-> FALSE]
SourceAnswer(outcome) == [consulted |-> TRUE, out |-> outcome]

\* base_cost_matrix.loc[w, c] = row[col] for every present column
OverrideCosts(matrix, row) ==
    MkCost(Get(row, "cost_a_to_1", matrix.Warehouse_A.Customer_1),
           Get(row, "cost_a_to_2", matrix.Warehouse_A.Customer_2),
           Get(row, "cost_b_to_1", matrix.Warehouse_B.Customer_1),
           Get(row, "cost_b_to_2", matrix.Warehouse_B.Customer_2))

\* row.get('cost_a_to_1', 10), row.get('cost_b_to_1', 15),
\* row.get('cost_a_to_2', 12), row.get('cost_b_to_2', 8)
OverrideOnlyCosts(row) ==
    MkCost(Get(row, "cost_a_to_1", Val(10)), Get(row, "cost_a_to_2", Val(12)),
           Get(row, "cost_b_to_1", Val(15)), Get(row, "cost_b_to_2", Val(8)))

\* A lookup that tags every matrix as retrieved from the source.
SourcedAsFeatureStore(matrix, source) ==
    Ok([cost_matrix |-> matrix, source |-> "feature_store"])

Sourced(matrix, source) == Ok([cost_matrix |-> matrix, source |-> source])

GetCostMatrixPythonMode(row, fetch) ==
    IF HasCostOverrides(row) /\ UseFeatureStore(row)
    THEN IF ~fetch.out.ok THEN fetch.out
         ELSE Sourced(OverrideCosts(fetch.out.v, row), "override")
    ELSE IF UseFeatureStore(row)
    THEN IF ~fetch.out.ok THEN fetch.out
         ELSE Sourced(fetch.out.v, "feature_store")
    ELSE IF ~HasCostOverrides(row) THEN Raise("ValueError")
    ELSE Sourced(OverrideOnlyCosts(row), "override_only")

\* missing_costs = [c for c in required_costs if c not in row or pd.isna(row[c])]
MissingCosts(row) == {col \in CostColumns : ~Has(row, col) \/ ~IsVal(row[col])}

GetCostMatrixSqlMode(row) ==
    IF MissingCosts(row) # {} THEN Raise("ValueError")
    ELSE Sourced(MkCost(row.cost_a_to_1, row.cost_a_to_2,
                        row.cost_b_to_1, row.cost_b_to_2), "sql_input")

GetCostMatrix(md, row, fetch) ==
    IF md = "python" THEN GetCostMatrixPythonMode(row, fetch)
    ELSE GetCostMatrixSqlMode(row)

\* An Optimal row whose utilization is left as a fraction of 1.
OptimalResultUnscaled(solution) ==
    [optimal_cost |-> Val(solution.total_cost),
     feasible |-> TRUE,
     shipment_a_to_1 |-> solution.shipments.Warehouse_A.Customer_1,
     shipment_a_to_2 |-> solution.shipments.Warehouse_A.Customer_2,
     shipment_b_to_1 |-> solution.shipments.Warehouse_B.Customer_1,
     shipment_b_to_2 |-> solution.shipments.Warehouse_B.Customer_2,
     warehouse_a_utilization |->
        solution.warehouse_utilization.Warehouse_A.utilization_rate,
     warehouse_b_utilization |->
        solution.warehouse_utilization.Warehouse_B.utilization_rate]

\* The row built when the solve ended Optimal (lines 382-391).
OptimalResult(solution) ==
    [optimal_cost |-> Val(solution.total_cost),
     feasible |-> TRUE,
     shipment_a_to_1 |-> solution.shipments.Warehouse_A.Customer_1,
     shipment_a_to_2 |-> solution.shipments.Warehouse_A.Customer_2,
     shipment_b_to_1 |-> solution.shipments.Warehouse_B.Customer_1,
     shipment_b_to_2 |-> solution.shipments.Warehouse_B.Customer_2,
     warehouse_a_utilization |->
        LET r == solution.warehouse_utilization.Warehouse_A.utilization_rate
        IN Ratio(r.num * 100, r.den),
     warehouse_b_utilization |->
        LET r == solution.warehouse_utilization.Warehouse_B.utilization_rate
        IN Ratio(r.num * 100, r.den)]

\* An infeasible row that reports a cost of 0.
InfeasibleResultWithCost ==
    [optimal_cost |-> Val(0),
     feasible |-> FALSE,
     shipment_a_to_1 |-> 0,
     shipment_a_to_2 |-> 0,
     shipment_b_to_1 |-> 0,
     shipment_b_to_2 |-> 0,
     warehouse_a_utilization |-> ZeroRatio,
     warehouse_b_utilization |-> ZeroRatio]

\* The row built when solve() returned False (lines 394-403).
InfeasibleResult ==
    [optimal_cost |-> NoneV,
     feasible |-> FALSE,
     shipment_a_to_1 |-> 0,
     shipment_a_to_2 |-> 0,
     shipment_b_to_1 |-> 0,
     shipment_b_to_2 |-> 0,
     warehouse_a_utilization |-> ZeroRatio,
     warehouse_b_utilization |-> ZeroRatio]

\* Lines 406-409: the scenario's metadata; a normal row has no error text.
WithMetadata(result, name, source, ts, md) ==
    [scenario_name |-> name,
     optimal_cost |-> result.optimal_cost,
     feasible |-> result.feasible,
     shipment_a_to_1 |-> result.shipment_a_to_1,
     shipment_a_to_2 |-> result.shipment_a_to_2,
     shipment_b_to_1 |-> result.shipment_b_to_1,
     shipment_b_to_2 |-> result.shipment_b_to_2,
     warehouse_a_utilization |-> result.warehouse_a_utilization,
     warehouse_b_utilization |-> result.warehouse_b_utilization,
     cost_matrix_source |-> source,
     feature_timestamp |-> ts,
     execution_mode |-> md,
     error |-> Absent]

\* The except branch (lines 421-441).
ErrorResult(name, k, row, md, err) ==
    [scenario_name |-> SafeScenarioName(name, k),
     optimal_cost |-> NoneV,
     feasible |-> FALSE,
     shipment_a_to_1 |-> 0,
     shipment_a_to_2 |-> 0,
     shipment_b_to_1 |-> 0,
     shipment_b_to_2 |-> 0,
     warehouse_a_utilization |-> ZeroRatio,
     warehouse_b_utilization |-> ZeroRatio,
     cost_matrix_source |-> "error",
     feature_timestamp |-> Get(row, "feature_timestamp", NoneV),
     execution_mode |-> md,
     error |-> Val(err)]

\* Lines 367-403 for one answer `out` of the backend: solve(), then the
\* summary when solve() returned True.
RunOptimization(cost, config, out) ==
    LET model == CreateModel(cost, config)
        is_optimal == SolveReturn(out)
    IN IF ~is_optimal.ok THEN is_optimal
       ELSE IF is_optimal.v
       THEN LET solution == GetSolutionSummary(model, out.status, out.values, config)
            IN IF ~solution.ok THEN solution
               ELSE IF IsNoneRec(solution.v) THEN Raise("TypeError")
               ELSE Ok(OptimalResult(solution.v))
       ELSE Ok(InfeasibleResult)

(***************************************************************************)
(* The inputs explored: models, frames and answers of the cost source.     *)
(***************************************************************************)
Modes == {"python", "sql"}

\* Constraint templates (the JSON document named by config_template_file).
BaseConfigs == {MkConfig(100, 80, 70, 60), MkConfig(60, 80, 70, 60)}

\* Matrices the cost source may return.
SourceMatrices == {MkCost(Val(6), Val(9), Val(7), Val(5))}

SourceAnswers ==
    {SourceAnswer(Raise("ExternalSourceError"))}
        \cup {SourceAnswer(Ok(m)) : m \in SourceMatrices}

MkRow(caps, costs, ufs, ts) ==
    [scenario_name |-> Absent,
     warehouse_a_capacity |-> caps[1], warehouse_b_capacity |-> caps[2],
     customer_1_demand |-> caps[3], customer_2_demand |-> caps[4],
     cost_a_to_1 |-> costs[1], cost_a_to_2 |-> costs[2],
     cost_b_to_1 |-> costs[3], cost_b_to_2 |-> costs[4],
     use_feature_store |-> ufs, feature_timestamp |-> ts]

KRef == <<Val(100), Val(80), Val(70), Val(60)>>       \* base_case
KInf == <<Val(50), Val(40), Val(70), Val(60)>>        \* impossible_demand
KZeroCap == <<Val(0), Val(80), Val(40), Val(30)>>
KZeroDem == <<Val(100), Val(80), Val(0), Val(60)>>
KEmpty == <<NaN, Val(80), Val(70), Val(60)>>
KAbsent == <<Absent, Absent, Absent, Absent>>
KNegCap == <<Val(-10), Val(80), Val(70), Val(60)>>
KNegDem == <<Val(100), Val(80), Val(-10), Val(60)>>

CRef == <<Val(5), Val(8), Val(6), Val(4)>>
CAlt == <<Val(7), Val(10), Val(8), Val(6)>>          \* fuel_cost_spike
CEmpty == <<Val(5), NaN, Val(6), Val(4)>>
CAbsent == <<Absent, Absent, Absent, Absent>>
CPartial == <<Absent, Val(8), Val(6), Absent>>       \* two of the four columns

Bodies ==
    {MkRow(k, CRef, Absent, Absent) :
        k \in {KRef, KInf, KZeroCap, KZeroDem, KEmpty, KAbsent}}
    \cup {MkRow(KRef, c, Absent, Absent) : c \in {CAlt, CEmpty, CAbsent}}
    \cup {MkRow(k, CAbsent, Absent, Absent) : k \in {KInf, KAbsent}}
    \cup {MkRow(KRef, c, u, Absent) :
            c \in {CRef, CAbsent}, u \in {Val(FALSE), NaN}}
    \cup {MkRow(KRef, CRef, Absent, t) :
            t \in {NoneV, Val("2024-01-15T00:00:00"), Val("yesterday")}}
    \cup {MkRow(k, CRef, Val(FALSE), Absent) : k \in {KNegCap, KNegDem}}
    \cup {MkRow(KRef, CPartial, u, Absent) : u \in {Absent, Val(FALSE), NaN}}

\* The scenario_name column: absent, or one distinct identifier per row in
\* one of two orders.
Identifier(i) == Val("s" \o ToString(i))

NameColumns(n) ==
    {[i \in 1..n |-> Absent], [i \in 1..n |-> Identifier(i)],
     [i \in 1..n |-> Identifier(n + 1 - i)]}

Named(body, name) == [body EXCEPT !.scenario_name = name]

\* A frame has each column in every row or in none.
ColumnConsistent(frame) ==
    \A col \in Columns :
        \/ \A i \in DOMAIN frame : Has(frame[i], col)
        \/ \A i \in DOMAIN frame : ~Has(frame[i], col)

\* In Python mode the cost cells that are present hold numbers.
CostCellsNumeric(md, frame) ==
    md = "python" =>
        \A i \in DOMAIN frame : \A col \in CostColumns :
            Has(frame[i], col) => IsVal(frame[i][col])

Frames(md) ==
    UNION {{[i \in DOMAIN b |-> Named(b[i], names[i])] : names \in NameColumns(Len(b))} :
            b \in {f \in UNION {[1..n -> Bodies] : n \in 0..MaxBatch} :
                      ColumnConsistent(f) /\ CostCellsNumeric(md, f)}}

(***************************************************************************)
(* One iteration of the loop of predict, for the row at position k         *)
(* (k = len(results)), given the answer `fetch` of the cost source and     *)
(* the answer `out` of the LP backend.  Yields the row appended to         *)
(* `results` and the template the model holds afterwards.                  *)
(***************************************************************************)
\* What one iteration does: the rows it appends to `results`, whether an
\* exception leaves the loop, and the template afterwards.
Iteration(rows, escapes, template) ==
    [appended |-> rows, raised |-> escapes, template |-> template]

\* results.append(result) after the inner try/finally
Completed(result, template) == Iteration(<<result>>, FALSE, template)

\* An except branch that swallows the failure without a row.
CaughtDropped(name, k, row, md, err, template) ==
    Iteration(<<>>, FALSE, template)

\* No except branch: the exception leaves the loop.
CaughtReraised(name, k, row, md, err, template) ==
    Iteration(<<>>, TRUE, template)

\* "except Exception as e": the error row is appended and the loop goes on.
Caught(name, k, row, md, err, template) ==
    Iteration(<<ErrorResult(name, k, row, md, err)>>, FALSE, template)

\* The backend's answers for the model built from (cost, config), looked up
\* in a table computed once over the inputs above.
LPInputConfigs ==
    {c.v : c \in {o \in {ApplyOverrides(b, r) : b \in BaseConfigs, r \in Bodies} : o.ok}}

LPInputCosts ==
    {c.v.cost_matrix :
        c \in {o \in {GetCostMatrix(md, r, f) :
                        md \in Modes, r \in Bodies, f \in SourceAnswers} :
                  o.ok /\ \A w \in Warehouses : \A u \in Customers :
                              IsVal(o.v.cost_matrix[w][u])}}

SolveTable ==
    {<<CreateModel(cost, config), BackendSolve(CreateModel(cost, config))>> :
        cost \in LPInputCosts, config \in LPInputConfigs}

BackendAnswers(m) ==
    IF \E t \in SolveTable : t[1] = m
    THEN (CHOOSE t \in SolveTable : t[1] = m)[2]
    ELSE BackendSolve(m)

ProcessScenario(template, row, k, md, fetch) ==
    LET name == ScenarioName(row, k)
        ts == ParseTimestamp(row)
        config == ApplyOverrides(template, row)
        after == TemplateAfterOverrides(template, config)
        cost == GetCostMatrix(md, row, fetch)
    IN IF ~ts.ok
       THEN {Caught(name, k, row, md, ts.err, template)}
       ELSE IF ~config.ok
       THEN {Caught(name, k, row, md, config.err, after)}
       ELSE IF ~cost.ok
       THEN {Caught(name, k, row, md, cost.err, after)}
       ELSE {LET result == RunOptimization(cost.v.cost_matrix, config.v, out)
             IN IF ~result.ok
                THEN Caught(name, k, row, md, result.err, after)
                ELSE Completed(WithMetadata(result.v, name, cost.v.source,
                                            ts.v, md), after) :
                out \in BackendAnswers(CreateModel(cost.v.cost_matrix, config.v))}

\* The answers the cost source can give for a row: none when it is not
\* consulted.
AnswersFor(md, row) ==
    IF ConsultsSource(md, row) THEN SourceAnswers ELSE {NotConsulted}

(***************************************************************************)
(* generate_cost_matrix_from_data (src/helper/model_utils.py).             *)
(*                                                                         *)
(* The CSV is a sequence of shipment records.  The numeric fields are      *)
(* positive rationals, kept exact and in lowest terms, so that the         *)
(* rounding of the last step is visible.                                   *)
(***************************************************************************)
RInt(n) == Ratio(n, 1)

RNorm(n, d) ==
    LET g == Gcd(Abs(n), d)
    IN  Ratio(n \div g, d \div g)

RMul(a, b) == RNorm(a.num * b.num, a.den * b.den)
RDiv(a, b) == RNorm(a.num * b.den, a.den * b.num)
RAdd(a, b) == RNorm(a.num * b.den + b.num * a.den, a.den * b.den)
RLe(a, b) == a.num * b.den <= b.num * a.den

\* df['calculated_cost'] of one record under a known model_type.
CalculatedCost(model_type, r) ==
    IF model_type = "time"
    THEN LET hourly_rate == RInt(25)
         IN  RMul(RMul(RMul(r.travel_time_hours, hourly_rate),
                       r.seasonal_factor),
                  r.priority_multiplier)
    ELSE LET distance_cost ==
                 RMul(RMul(r.distance_km, r.base_rate_per_km),
                      r.road_condition_factor)
             fuel_efficiency_base == RInt(8)
             fuel_efficiency ==
                 RMul(RMul(fuel_efficiency_base,
                           RDiv(r.vehicle_capacity_tons, RInt(10))),
                      RDiv(RInt(1), r.road_condition_factor))
             fuel_cost ==
                 RMul(RDiv(r.distance_km, fuel_efficiency),
                      r.fuel_price_per_liter)
             hourly_rate == RInt(25)
             time_cost ==
                 RMul(RMul(r.travel_time_hours, hourly_rate), Ratio(3, 10))
             capacity_factor == RDiv(RInt(10), r.vehicle_capacity_tons)
         IN  RMul(RMul(RMul(RAdd(RAdd(distance_cost, fuel_cost), time_cost),
                            capacity_factor),
                       r.seasonal_factor),
                  r.priority_multiplier)

RECURSIVE RSum(_)
RSum(s) == IF Len(s) = 0 THEN ZeroRatio ELSE RAdd(Head(s), RSum(Tail(s)))

RECURSIVE InsertSorted(_, _)
InsertSorted(x, s) ==
    IF Len(s) = 0 THEN <<x>>
    ELSE IF RLe(x, Head(s)) THEN <<x>> \o s
    ELSE <<Head(s)>> \o InsertSorted(x, Tail(s))

RECURSIVE SortCosts(_)
SortCosts(s) ==
    IF Len(s) = 0 THEN <<>> ELSE InsertSorted(Head(s), SortCosts(Tail(s)))

Mean(s) == RDiv(RSum(s), RInt(Len(s)))

Median(s) ==
    LET o == SortCosts(s)
        n == Len(s)
    IN  IF n % 2 = 1 THEN o[(n + 1) \div 2]
        ELSE Mean(<<o[n \div 2], o[n \div 2 + 1]>>)

Aggregations == {"mean", "median", "min", "max"}

\* The statistic of one group's costs under a known aggregation.
Aggregate(aggregation, s) ==
    IF aggregation = "mean" THEN Mean(s)
    ELSE IF aggregation = "median" THEN Median(s)
    ELSE IF aggregation = "min" THEN SortCosts(s)[1]
    ELSE SortCosts(s)[Len(s)]

\* groupby(['warehouse', 'customer']): the costs of one route, in file order.
GroupCosts(data, model_type, w, c) ==
    LET g == SelectSeq(data, LAMBDA r : r.warehouse = w /\ r.customer = c)
    IN  [k \in 1..Len(g) |-> CalculatedCost(model_type, g[k])]

\* pivot: one row per warehouse seen, one column per customer seen; a pair
\* without a record is an empty (NaN) entry.
Pivot(data, model_type, aggregation) ==
    LET ws == {data[k].warehouse : k \in 1..Len(data)}
        cs == {data[k].customer : k \in 1..Len(data)}
    IN  [w \in ws |-> [c \in cs |->
            LET s == GroupCosts(data, model_type, w, c)
            IN  IF Len(s) = 0 THEN NaN ELSE Val(Aggregate(aggregation, s))]]

\* round(2): to the nearest hundredth.  A value halfway between two
\* hundredths goes to either, as the binary representation decides.
RoundDown(r) == RNorm((r.num * 100) \div r.den, 100)
RoundUp(r) == RNorm((r.num * 100) \div r.den + 1, 100)
IsTie(r) == 2 * ((r.num * 100) % r.den) = r.den
RoundNearest(r) ==
    IF 2 * ((r.num * 100) % r.den) < r.den THEN RoundDown(r) ELSE RoundUp(r)

Round2(matrix) ==
    LET ws == DOMAIN matrix
        cs == UNION {DOMAIN matrix[w] : w \in ws}
        ties == {p \in ws \X cs :
                    IsVal(matrix[p[1]][p[2]]) /\ IsTie(V(matrix[p[1]][p[2]]))}
    IN  {[w \in ws |-> [c \in cs |->
            LET cell == matrix[w][c]
            IN  IF ~IsVal(cell) THEN cell
                ELSE IF <<w, c>> \in ties
                     THEN IF <<w, c>> \in up THEN Val(RoundUp(V(cell)))
                          ELSE Val(RoundDown(V(cell)))
                ELSE Val(RoundNearest(V(cell)))]] : up \in SUBSET ties}

\* A variant that falls back to the defaults of the signature
\* (composite, mean) on an unknown argument.
GenerateCostMatrixWithFallback(data, model_type, aggregation) ==
    LET mt == IF model_type \in {"time", "composite"} THEN model_type
              ELSE "composite"
        ag == IF aggregation \in Aggregations THEN aggregation ELSE "mean"
    IN  {Ok(m) : m \in Round2(Pivot(data, mt, ag))}

\* The outcomes of generate_cost_matrix_from_data.
GenerateCostMatrixFromData(data, model_type, aggregation) ==
    IF model_type \notin {"time", "composite"}
    THEN {Raise("ValueError")}
    ELSE IF aggregation \notin Aggregations
    THEN {Raise("ValueError")}
    ELSE {Ok(m) : m \in Round2(Pivot(data, model_type, aggregation))}

\* The files and arguments explored.  A shipment record has the route and
\* the eight numeric columns the two cost models read.
Shipment(w, c, profile) ==
    [warehouse |-> w, customer |-> c,
     distance_km |-> profile[1], base_rate_per_km |-> profile[2],
     road_condition_factor |-> profile[3],
     vehicle_capacity_tons |-> profile[4],
     fuel_price_per_liter |-> profile[5],
     travel_time_hours |-> profile[6],
     seasonal_factor |-> profile[7], priority_multiplier |-> profile[8]]

\* distance, rate, road, tons, fuel price, hours, seasonal, priority
Profiles ==
    {<<RInt(100), Ratio(1, 2), RInt(1), RInt(10), RInt(2), RInt(2),
       RInt(1), RInt(1)>>,
     <<RInt(80), Ratio(1, 2), Ratio(6, 5), RInt(20), Ratio(3, 2), Ratio(3, 2),
       Ratio(11, 10), Ratio(23, 20)>>,
     <<RInt(1), Ratio(1, 8), RInt(1), RInt(10), RInt(1), Ratio(1, 200),
       RInt(1), RInt(1)>>}

Routes ==
    {<<"Warehouse_A", "Customer_1">>, <<"Warehouse_A", "Customer_2">>,
     <<"Warehouse_B", "Customer_2">>}

Shipments == {Shipment(r[1], r[2], p) : r \in Routes, p \in Profiles}

DataFiles == UNION {[1..n -> Shipments] : n \in 1..MaxRecords}

ModelTypeArgs == {"time", "composite", "bogus"}
AggregationArgs == Aggregations \cup {"bogus"}

(***************************************************************************)
(* predict as a state machine.                                             *)
(***************************************************************************)
\* __init__ succeeded: the template is loaded and the mode resolved.
ModelConstructed(md, template) ==
    /\ mode = md
    /\ base_config = template
    /\ base0 = template
    /\ pc = "idle"
    /\ input = <<>>
    /\ pos = 0
    /\ results = <<>>
    /\ fetched = <<>>

\* predict(input): results = []
PredictCall ==
    /\ pc = "idle"
    /\ \E frame \in Frames(mode) : input' = frame
    /\ pos' = 0
    /\ results' = <<>>
    /\ fetched' = <<>>
    /\ pc' = "running"
    /\ UNCHANGED <<mode, base_config, base0, lvars, fvars>>

\* one pass of "for _, row in input.iterrows()", the cost source answering
\* with one of `answers`
PredictRowWith(answers) ==
    /\ pc = "running"
    /\ pos < Len(input)
    /\ LET row == input[pos + 1]
           k == Len(results)
       IN \E fetch \in answers :
          \E it \in ProcessScenario(base_config, row, k, mode, fetch) :
              /\ results' = results \o it.appended
              /\ base_config' = it.template
              /\ fetched' = Append(fetched, fetch)
              /\ pc' = IF it.raised THEN "raised" ELSE "running"
    /\ pos' = pos + 1
    /\ UNCHANGED <<mode, base0, input, lvars>>

PredictRow ==
    /\ pc = "running"
    /\ pos < Len(input)
    /\ PredictRowWith(AnswersFor(mode, input[pos + 1]))
    /\ UNCHANGED fvars

\* The loop is over: `results` is the frame predict is about to return.
LoopDone == pc = "running" /\ pos = Len(input)

\* return pd.DataFrame(results): the locals of the call are gone.
PredictReturn ==
    /\ LoopDone
    /\ pc' = "idle"
    /\ input' = <<>>
    /\ pos' = 0
    /\ results' = <<>>
    /\ fetched' = <<>>
    /\ UNCHANGED <<mode, base_config, base0, lvars, fvars>>

\* No TransportationLP object is under study: a placeholder.
NoLP == LPConstructed(MkCost(Val(0), Val(0), Val(0), Val(0)), MkConfig(0, 0, 0, 0))

\* Neither generate_cost_matrix_from_data nor the cost lookup is under study.
NoCalls ==
    /\ data_file = <<>>
    /\ agg_call = NotCalled
    /\ cost_row = MkRow(KAbsent, CAbsent, Absent, Absent)
    /\ cost_call = NotCalled

Init ==
    /\ \E md \in Modes : \E template \in BaseConfigs : ModelConstructed(md, template)
    /\ NoLP
    /\ NoCalls
    /\ OthersIdle({})

Next == PredictCall \/ PredictRow \/ PredictReturn

Spec == Init /\ [][Next]_vars

InitLP ==
    /\ ModelConstructed("sql", MkConfig(0, 0, 0, 0))
    /\ \E cost \in LPCosts : \E config \in LPConfigs : LPConstructed(cost, config)
    /\ NoCalls
    /\ OthersIdle({})

NextLP == LPCreateModel \/ LPSolve \/ LPGetSolutionSummary

SpecLP == InitLP /\ [][NextLP]_vars

(***************************************************************************)
(* generate_cost_matrix_from_data as a state machine: the file is given,   *)
(* each call chooses model_type and aggregation.                           *)
(***************************************************************************)
GenerateCostMatrix ==
    /\ \E model_type \in ModelTypeArgs : \E aggregation \in AggregationArgs :
       \E outcome \in GenerateCostMatrixFromData(data_file, model_type, aggregation) :
          agg_call' = [called |-> TRUE, model_type |-> model_type,
                       aggregation |-> aggregation, out |-> outcome]
    /\ UNCHANGED <<data_file, cost_row, cost_call, pvars, lvars, nvars>>

InitAgg ==
    /\ ModelConstructed("sql", MkConfig(0, 0, 0, 0))
    /\ NoLP
    /\ data_file \in DataFiles
    /\ agg_call = NotCalled
    /\ cost_row = MkRow(KAbsent, CAbsent, Absent, Absent)
    /\ cost_call = NotCalled
    /\ OthersIdle({})

NextAgg == GenerateCostMatrix

SpecAgg == InitAgg /\ [][NextAgg]_vars

(***************************************************************************)
(* _get_cost_matrix_python_mode as a state machine: the row is given, each *)
(* call gets an answer of the cost source when it consults it.  A cost     *)
(* cell is absent (the frame has no such column), a number, or empty.      *)
(***************************************************************************)
CostRows ==
    {MkRow(KRef, <<a1, a2, b1, b2>>, ufs, Absent) :
        a1 \in {Absent, Val(5), NaN}, a2 \in {Absent, Val(8), NaN},
        b1 \in {Absent, Val(6), NaN}, b2 \in {Absent, Val(4), NaN},
        ufs \in {Absent, Val(TRUE), Val(FALSE), NaN, NoneV}}

CostLookup ==
    /\ \E fetch \in AnswersFor(mode, cost_row) :
          cost_call' = [called |-> TRUE, fetch |-> fetch,
                        out |-> GetCostMatrixPythonMode(cost_row, fetch)]
    /\ UNCHANGED <<data_file, agg_call, cost_row, pvars, lvars, nvars>>

InitCost ==
    /\ ModelConstructed("python", MkConfig(100, 80, 70, 60))
    /\ NoLP
    /\ data_file = <<>>
    /\ agg_call = NotCalled
    /\ cost_row \in CostRows
    /\ cost_call = NotCalled
    /\ OthersIdle({})

NextCost == CostLookup

SpecCost == InitCost /\ [][NextCost]_vars

(***************************************************************************)
(* TransportationFeatureStore.get_latest_cost_matrix                       *)
(* (src/helper/feature_store_utils.py), reached from predict through       *)
(* _get_cost_matrix_from_feature_store.                                    *)
(*                                                                         *)
(* The source holds a sequence of versions of the cost matrix in time      *)
(* order, version k in force from time fs_versions[k].at on.  A marker is  *)
(* None or a time.                                                         *)
(***************************************************************************)
Version(t, matrix) == [at |-> t, matrix |-> matrix]

\* retrieve_feature_values(spine_df=entities_df, features=[cost_matrix_fv]):
\* the spine has the four routes and no timestamp column, so the values
\* are the current ones.
RetrieveFeatureValues(versions) == versions[Len(versions)].matrix

\* get_latest_cost_matrix(feature_timestamp): the retrieval and the pivot,
\* or the exception of a failed retrieval.  The marker is not passed on.
GetLatestCostMatrix(versions, feature_timestamp) ==
    {Ok(RetrieveFeatureValues(versions)), Raise("ExternalSourceError")}

\* The stores and markers explored.
VersionMatrices ==
    SourceMatrices \cup {MkCost(Val(5), Val(8), Val(6), Val(4)),
                         MkCost(Val(7), Val(10), Val(8), Val(6))}

Stores ==
    UNION {{[k \in 1..n |-> Version(k, ms[k])] : ms \in [1..n -> VersionMatrices]} :
            n \in 1..MaxVersions}

Markers == {NoneV} \cup {Val(t) : t \in 1..MaxVersions}

FsLookup ==
    /\ \E feature_timestamp \in Markers :
       \E outcome \in GetLatestCostMatrix(fs_versions, feature_timestamp) :
          fs_call' = [called |-> TRUE, feature_timestamp |-> feature_timestamp,
                      out |-> outcome]
    /\ UNCHANGED <<fs_versions, fsRest>>

InitFS ==
    /\ ModelConstructed("python", MkConfig(100, 80, 70, 60))
    /\ NoLP
    /\ NoCalls
    /\ OthersIdle({"fs"})
    /\ fs_versions \in Stores
    /\ fs_call = NotCalled

NextFS == FsLookup

SpecFS == InitFS /\ [][NextFS]_vars

(***************************************************************************)
(* The lifecycle of one TransportationLP object whose configuration the    *)
(* caller changes between calls (self.config is a plain attribute).        *)
(***************************************************************************)
LifeConfigs ==
    {MkConfig(wa, MaxQty, c1, MaxQty) : wa \in Quantities, c1 \in Quantities}

LifeCost == MkCost(Val(MaxCost), Val(0), Val(0), Val(MaxCost))

\* lp.config = config, by the caller; nothing else of the object changes.
LPSetConfig ==
    /\ \E config \in LifeConfigs : config # lp_config /\ lp_config' = config
    /\ lp_ret' = Called("config", Ok(NoneRec))
    /\ UNCHANGED <<lp_cost, lp_model, lp_status, lp_values, pvars, fvars>>

InitLife ==
    /\ ModelConstructed("sql", MkConfig(0, 0, 0, 0))
    /\ \E config \in LifeConfigs : LPConstructed(LifeCost, config)
    /\ NoCalls
    /\ OthersIdle({})

NextLife == LPCreateModel \/ LPSolve \/ LPGetSolutionSummary \/ LPSetConfig

SpecLife == InitLife /\ [][NextLife]_vars

(***************************************************************************)
(* SnowflakeTransportationModel.__init__: _determine_mode,                 *)
(* _is_udf_context and _ensure_feature_store, followed by predict calls.   *)
(*                                                                         *)
(* The environment `env` says what the probes of _is_udf_context meet:     *)
(*   indicator  one of the four SNOWFLAKE_*_ID variables is non-empty      *)
(*   session    what get_active_session and the two queries on it do:      *)
(*              "ok", "import_error", "udf_error" (an exception whose text *)
(*              has one of the three UDF patterns) or "other_error"        *)
(*   creds      account, user and one of password / key path are set       *)
(*   probe_ok   FALSE when the probe itself raises outside the inner try   *)
(*   store_ok   whether _init_feature_store succeeds                       *)
(***************************************************************************)
\* A detection that takes every session error for a UDF.
IsUdfContextOnAnySessionError(e) ==
    IF ~e.probe_ok THEN FALSE
    ELSE IF e.indicator THEN TRUE
    ELSE e.session \in {"udf_error", "other_error"}

\* _is_udf_context
IsUdfContext(e) ==
    IF ~e.probe_ok THEN FALSE
    ELSE IF e.indicator THEN TRUE
    ELSE IF e.session = "ok" THEN FALSE
    ELSE IF e.session = "import_error" THEN FALSE
    ELSE IF e.creds THEN FALSE
    ELSE e.session = "udf_error"

\* _determine_mode
DetermineMode(requested_mode, e) ==
    IF requested_mode \in {"python", "sql"} THEN requested_mode
    ELSE IF IsUdfContext(e) THEN "sql" ELSE "python"

\* The handle and its two flags, with the count of initialisations.
Handle(manager, initialized, error, attempts) ==
    [manager |-> manager, initialized |-> initialized, error |-> error,
     attempts |-> attempts]

Ensured(handle, raised) == [handle |-> handle, raised |-> raised]

TheManager == Val("TransportationFeatureStore")

\* An _ensure_feature_store without the _feature_store_initialized test.
EnsureFeatureStoreAnew(md, h, store_ok) ==
    IF md # "python" THEN Ensured(h, FALSE)
    ELSE IF store_ok
    THEN Ensured(Handle(TheManager, TRUE, h.error, h.attempts + 1), FALSE)
    ELSE Ensured(Handle(h.manager, TRUE, Val("RuntimeError"), h.attempts + 1), TRUE)

\* _ensure_feature_store
EnsureFeatureStore(md, h, store_ok) ==
    IF md # "python" THEN Ensured(h, FALSE)
    ELSE IF h.initialized
    THEN Ensured(h, h.manager = NoneV /\ h.error # NoneV)
    ELSE IF store_ok
    THEN Ensured(Handle(TheManager, TRUE, h.error, h.attempts + 1), FALSE)
    ELSE Ensured(Handle(h.manager, TRUE, Val("RuntimeError"), h.attempts + 1), TRUE)

TheHandle ==
    Handle(feature_store_manager, feature_store_initialized,
           initialization_error, init_attempts)

HandleBecomes(h) ==
    /\ feature_store_manager' = h.manager
    /\ feature_store_initialized' = h.initialized
    /\ initialization_error' = h.error
    /\ init_attempts' = h.attempts

\* __init__(context, mode): the template, the mode, then the feature store.
Construct ==
    /\ constructed = "no"
    /\ mode' = DetermineMode(requested, env)
    /\ LET e == EnsureFeatureStore(mode', Handle(NoneV, FALSE, NoneV, 0), env.store_ok)
       IN  /\ HandleBecomes(e.handle)
           /\ constructed' = IF e.raised THEN "failed" ELSE "yes"
    /\ UNCHANGED <<base_config, base0, pc, input, pos, results, fetched,
                   env, requested, lvars, data_file, agg_call, cost_row,
                   cost_call, initOthers>>

\* predict on a constructed model, with a frame of at most one scenario.
ShortFrames(md) ==
    UNION {{[i \in DOMAIN b |-> Named(b[i], names[i])] : names \in NameColumns(Len(b))} :
            b \in {f \in UNION {[1..n -> Bodies] : n \in 0..1} :
                      CostCellsNumeric(md, f)}}

ConstructedPredictCall ==
    /\ constructed = "yes"
    /\ pc = "idle"
    /\ \E frame \in ShortFrames(mode) : input' = frame
    /\ pos' = 0
    /\ results' = <<>>
    /\ fetched' = <<>>
    /\ pc' = "running"
    /\ UNCHANGED <<mode, base_config, base0, lvars, fvars>>

\* One pass of the loop: _get_cost_matrix_python_mode calls
\* _ensure_feature_store before it consults the source, and a raise there
\* is the failure of the lookup.
ConstructedPredictRow ==
    /\ pc = "running"
    /\ pos < Len(input)
    /\ LET row == input[pos + 1]
           e == IF ConsultsSource(mode, row)
                THEN EnsureFeatureStore(mode, TheHandle, env.store_ok)
                ELSE Ensured(TheHandle, FALSE)
       IN  /\ HandleBecomes(e.handle)
           /\ PredictRowWith(IF e.raised
                             THEN {SourceAnswer(Raise("RuntimeError"))}
                             ELSE AnswersFor(mode, row))
    /\ UNCHANGED <<env, requested, constructed, data_file, agg_call,
                   cost_row, cost_call, initOthers>>

Environments ==
    [indicator : BOOLEAN,
     session : {"ok", "import_error", "udf_error", "other_error"},
     creds : BOOLEAN, probe_ok : BOOLEAN, store_ok : BOOLEAN]

RequestedModes == {"python", "sql", "auto", "fast"}

InitConstruct ==
    /\ ModelConstructed("unset", MkConfig(100, 80, 70, 60))
    /\ NoLP
    /\ NoCalls
    /\ OthersIdle({"init"})
    /\ env \in Environments
    /\ requested \in RequestedModes
    /\ constructed = "no"
    /\ feature_store_manager = NoneV
    /\ feature_store_initialized = FALSE
    /\ initialization_error = NoneV
    /\ init_attempts = 0

NextConstruct ==
    Construct \/ ConstructedPredictCall \/ ConstructedPredictRow \/ PredictReturn

SpecConstruct == InitConstruct /\ [][NextConstruct]_vars

(***************************************************************************)
(* register_transportation_model (src/helper/register_with_snowflake.py).  *)
(*                                                                         *)
(* reg_env says what each call meets:                                      *)
(*   initial_ok, sql_ok, auto_ok   create_snowflake_model returns          *)
(*   auto_mode                     the mode the auto model resolves to     *)
(*   sql_run, auto_run             the local environment lets predict      *)
(*                                 process the test scenario               *)
(*   source                        the answer of the cost source           *)
(*   registry_ok                   get_model_registry returns              *)
(***************************************************************************)
\* test_input: one scenario, all eight values and a datetime marker.
TestInput ==
    [MkRow(KRef, <<Val(10), Val(12), Val(15), Val(8)>>, Absent,
           <<"datetime", "now", 0>>)
        EXCEPT !.scenario_name = Val("registration_test")]

TestTemplate == MkConfig(100, 80, 70, 60)

\* model.predict(test_input): the frame of one row it returns.  When the
\* environment does not let the scenario run (temporary files, backend),
\* predict catches the failure and the row is an error row.
TestPredict(md, runs, fetch) ==
    IF ~runs
    THEN {ErrorResult(ScenarioName(TestInput, 0), 0, TestInput, md, "OSError")}
    ELSE {it.appended[1] : it \in ProcessScenario(TestTemplate, TestInput, 0, md, fetch)}

\* A test that passes whatever the row holds.
FormatCostOfAnyRow(result) == Ok(result.optimal_cost)

\* f"{test_result.loc[0, 'optimal_cost']:.2f}": None has no such format.
FormatCost(result) ==
    IF IsVal(result.optimal_cost) THEN Ok(result.optimal_cost)
    ELSE Raise("TypeError")

Model(tag, md) == [made_by |-> tag, mode |-> md]

\* `cost` is the optimal cost printed by the test that passed.
RegHist(initial, sql, auto, registry, cost) ==
    [initial |-> initial, sql |-> sql, auto |-> auto, registry |-> registry,
     cost |-> cost]

\* Step 1: sf_model = create_snowflake_model(...), or return
RegCreateModel ==
    /\ reg_pc = "start"
    /\ IF reg_env.initial_ok
       THEN /\ sf_model' = Model("initial", reg_env.auto_mode)
            /\ reg_hist' = [reg_hist EXCEPT !.initial = "ok"]
            /\ reg_pc' = "test_sql"
       ELSE /\ sf_model' = sf_model
            /\ reg_hist' = [reg_hist EXCEPT !.initial = "failed"]
            /\ reg_pc' = "returned"
    /\ UNCHANGED <<reg_env, reg_log, regRest>>

\* Step 2, first try block: the SQL-mode model, its prediction, the print.
RegTestSql ==
    /\ reg_pc = "test_sql"
    /\ IF ~reg_env.sql_ok
       THEN /\ sf_model' = sf_model
            /\ reg_hist' = [reg_hist EXCEPT !.sql = "failed"]
            /\ reg_pc' = "test_auto"
       ELSE \E test_result \in TestPredict("sql", reg_env.sql_run, NotConsulted) :
               IF FormatCost(test_result).ok
               THEN /\ sf_model' = Model("sql", "sql")
                    /\ reg_hist' = [reg_hist EXCEPT !.sql = "ok",
                                                 !.cost = FormatCost(test_result).v]
                    /\ reg_pc' = "registry"
               ELSE /\ sf_model' = sf_model
                    /\ reg_hist' = [reg_hist EXCEPT !.sql = "failed"]
                    /\ reg_pc' = "test_auto"
    /\ UNCHANGED <<reg_env, reg_log, regRest>>

\* Step 2, except branch: the auto-mode model is assigned first, then
\* tested; a failure returns.
RegTestAuto ==
    /\ reg_pc = "test_auto"
    /\ IF ~reg_env.auto_ok
       THEN /\ sf_model' = sf_model
            /\ reg_hist' = [reg_hist EXCEPT !.auto = "failed"]
            /\ reg_pc' = "returned"
       ELSE /\ sf_model' = Model("auto", reg_env.auto_mode)
            /\ \E fetch \in (IF ConsultsSource(reg_env.auto_mode, TestInput)
                             THEN {reg_env.source} ELSE {NotConsulted}) :
               \E test_result \in TestPredict(reg_env.auto_mode, reg_env.auto_run, fetch) :
                  IF FormatCost(test_result).ok
                  THEN /\ reg_hist' = [reg_hist EXCEPT !.auto = "ok",
                                                    !.cost = FormatCost(test_result).v]
                       /\ reg_pc' = "registry"
                  ELSE /\ reg_hist' = [reg_hist EXCEPT !.auto = "failed"]
                       /\ reg_pc' = "returned"
    /\ UNCHANGED <<reg_env, reg_log, regRest>>

\* Step 3: model_registry = get_model_registry(), or return
RegGetRegistry ==
    /\ reg_pc = "registry"
    /\ reg_hist' = [reg_hist EXCEPT !.registry =
                        IF reg_env.registry_ok THEN "ok" ELSE "failed"]
    /\ reg_pc' = IF reg_env.registry_ok THEN "log" ELSE "returned"
    /\ UNCHANGED <<reg_env, sf_model, reg_log, regRest>>

\* Step 4: model_registry.log_model(model=sf_model, ...); its failure is
\* caught and printed.
RegLogModel ==
    /\ reg_pc = "log"
    /\ reg_log' = Append(reg_log, sf_model)
    /\ reg_pc' = "returned"
    /\ UNCHANGED <<reg_env, sf_model, reg_hist, regRest>>

RegEnvironments ==
    [initial_ok : BOOLEAN, sql_ok : BOOLEAN, auto_ok : BOOLEAN,
     auto_mode : Modes, sql_run : BOOLEAN, auto_run : BOOLEAN,
     source : SourceAnswers, registry_ok : BOOLEAN]

InitReg ==
    /\ ModelConstructed("sql", MkConfig(0, 0, 0, 0))
    /\ NoLP
    /\ NoCalls
    /\ OthersIdle({"reg"})
    /\ reg_env \in RegEnvironments
    /\ reg_pc = "start"
    /\ sf_model = NoneV
    /\ reg_hist = RegHist("none", "none", "none", "none", NoneV)
    /\ reg_log = <<>>

NextReg ==
    RegCreateModel \/ RegTestSql \/ RegTestAuto \/ RegGetRegistry \/ RegLogModel

SpecReg == InitReg /\ [][NextReg]_vars

(***************************************************************************)
(* SnowflakeManager (src/helper/snowflake_utils.py).  The manager caches    *)
(* four handles; each getter builds its handle when the cache is empty and  *)
(* returns the cached one otherwise.  What the library calls do is the      *)
(* environment's choice at each call:                                       *)
(*   active   get_active_session: "ok" | "import_error" | "error"           *)
(*   create   _create_snowpark_session: "ok" | "no_auth" (the ValueError    *)
(*            'No authentication method available') | "value_error" |       *)
(*            "error"                                                       *)
(*   connect  _create_explicit_connection: "ok" | "error"                   *)
(*   current  session.get_current_database / get_current_schema: a name,    *)
(*            None, or an exception                                         *)
(*   environ  SNOWFLAKE_DATABASE / SNOWFLAKE_SCHEMA: a name or unset        *)
(*   ctor     the FeatureStore / Registry constructor: "ok" | "error"       *)
(*   session_close, connection_close   the two close() calls of             *)
(*            close_connection: "ok" | "raise"                              *)
(* A name is Val(string) and Python None is NoneV.                          *)
(***************************************************************************)
MaxHandles == 2

Session(n) == <<"session", n>>

\* The session of the enclosing Snowflake context, which get_active_session
\* returns while it is open.
ActiveSession == Session(0)

Connection(n) == <<"connection", n>>

FeatureStore(session, database, name) ==
    <<"feature_store", session, database, name>>

Registry(session, database_name, schema_name) ==
    <<"registry", session, database_name, schema_name>>

MgrCalled(name, arguments, outcome) ==
    [call |-> name, args |-> arguments, out |-> outcome]

\* get_session, lines 53-98: the cached session when there is one; else
\* the active session; else a new session, the missing-authentication
\* ValueError turned into a RuntimeError and every other error re-raised.
\* The result is the new cache, the session created (if any) and the outcome.
GetSession(session, built, active, create) ==
    IF session # NoneV
    THEN [session |-> session, created |-> {}, out |-> Ok(session)]
    ELSE IF active = "ok"
    THEN [session |-> ActiveSession, created |-> {}, out |-> Ok(ActiveSession)]
    ELSE IF create = "ok"
    THEN [session |-> Session(built + 1), created |-> {Session(built + 1)},
          out |-> Ok(Session(built + 1))]
    ELSE [session |-> NoneV, created |-> {},
          out |-> Raise(CASE create = "no_auth" -> "RuntimeError"
                          [] create = "value_error" -> "ValueError"
                          [] OTHER -> "Exception")]

ActiveAnswers == {"ok", "import_error", "error"}
CreateAnswers == {"ok", "no_auth", "value_error", "error"}

\* What get_active_session can do in the present state: the active session
\* is no longer available once it has been closed.
ActiveNow == IF ActiveSession \in mgr_closed THEN ActiveAnswers \ {"ok"}
             ELSE ActiveAnswers

\* The environment's answers that matter to a get_session call: none when
\* the session is cached.
SessionAnswers ==
    IF mgr_session # NoneV THEN {<<"error", "error">>}
    ELSE ActiveNow \X CreateAnswers

\* The history kept about get_session: sessions built, created and returned.
SessionHistory(got) ==
    /\ mgr_built' = mgr_built + Cardinality(got.created)
    /\ mgr_created' = mgr_created \cup got.created
    /\ mgr_returned' = mgr_returned \cup
                          (IF got.out.ok THEN {got.out.v} ELSE {})

MgrGetSession ==
    /\ mgr_built < MaxHandles
    /\ \E got \in {GetSession(mgr_session, mgr_built, answers[1], answers[2]) :
                        answers \in SessionAnswers} :
            /\ mgr_session' = got.session
            /\ SessionHistory(got)
            /\ mgr_ret' = MgrCalled("get_session", <<>>, got.out)
    /\ mgr_cursor' = "none"
    /\ mgr_query' = NotCalled
    /\ UNCHANGED <<mgr_connection, mgr_feature_store, mgr_model_registry,
                   mgr_closed, th_pc, th_local, mgrRest>>

\* get_connection, lines 37-51
GetConnection(connection, built, connect) ==
    IF connection # NoneV
    THEN [connection |-> connection, built |-> built, out |-> Ok(connection)]
    ELSE IF connect = "ok"
    THEN [connection |-> Connection(built + 1), built |-> built + 1,
          out |-> Ok(Connection(built + 1))]
    ELSE [connection |-> NoneV, built |-> built, out |-> Raise("Exception")]

ConnectAnswers == {"ok", "error"}

MgrGetConnection ==
    /\ mgr_built < MaxHandles
    /\ \E connect \in ConnectAnswers :
         LET got == GetConnection(mgr_connection, mgr_built, connect) IN
            /\ mgr_connection' = got.connection
            /\ mgr_built' = got.built
            /\ mgr_ret' = MgrCalled("get_connection", <<>>, got.out)
    /\ mgr_cursor' = "none"
    /\ mgr_query' = NotCalled
    /\ UNCHANGED <<mgr_session, mgr_feature_store, mgr_model_registry,
                   mgr_closed, mgr_created, mgr_returned, th_pc, th_local, mgrRest>>

\* Lines 203-219 of get_feature_store: a missing database or schema is
\* asked of the session; when that raises, what is still missing comes from
\* the environment variables.
ResolveNames(database, schema, current, environ) ==
    IF database # NoneV /\ schema # NoneV THEN <<database, schema>>
    ELSE IF database = NoneV /\ ~current.database.ok
    THEN <<environ.database, IF schema = NoneV THEN environ.schema ELSE schema>>
    ELSE LET fs_database == IF database = NoneV THEN current.database.v
                            ELSE database
         IN  IF schema # NoneV THEN <<fs_database, schema>>
             ELSE IF current.schema.ok THEN <<fs_database, current.schema.v>>
             ELSE <<IF fs_database = NoneV THEN environ.database
                    ELSE fs_database,
                    environ.schema>>

\* get_feature_store, lines 188-238, given what its get_session call did:
\* the new cache and the outcome.
GetFeatureStore(feature_store, got, database, schema, current, environ, ctor) ==
    IF feature_store # NoneV
    THEN [feature_store |-> feature_store, out |-> Ok(feature_store)]
    ELSE IF ~got.out.ok
    THEN [feature_store |-> NoneV, out |-> got.out]
    ELSE LET names == ResolveNames(database, schema, current, environ) IN
         IF names[1] = NoneV \/ names[2] = NoneV
         THEN [feature_store |-> NoneV, out |-> Raise("ValueError")]
         ELSE IF ctor # "ok"
         THEN [feature_store |-> NoneV, out |-> Raise("Exception")]
         ELSE [feature_store |-> FeatureStore(got.out.v, names[1], names[2]),
               out |-> Ok(FeatureStore(got.out.v, names[1], names[2]))]

\* What the session answers about its current database and schema: both
\* names, no name, or an exception at the first or at the second question.
CurrentAnswers ==
    {[database |-> Ok(Val("DB1")), schema |-> Ok(Val("S1"))],
     [database |-> Ok(NoneV), schema |-> Ok(NoneV)],
     [database |-> Raise("Exception"), schema |-> Ok(Val("S1"))],
     [database |-> Ok(Val("DB1")), schema |-> Raise("Exception")]}

Environs ==
    {[database |-> Val("DB2"), schema |-> Val("S2")],
     [database |-> NoneV, schema |-> NoneV]}

\* The (database, schema) arguments of a getter.
NameArgs ==
    {<<NoneV, NoneV>>, <<Val("DB1"), Val("S1")>>, <<Val("DB2"), Val("S2")>>,
     <<Val("DB1"), NoneV>>, <<NoneV, Val("S2")>>}

CtorAnswers == {"ok", "error"}

\* The session a getter of a derived handle obtains: self.get_session() is
\* reached only when the handle is not cached.
SessionFor(handle, answers) ==
    IF handle # NoneV THEN [session |-> mgr_session, created |-> {},
                            out |-> Raise("not called")]
    ELSE GetSession(mgr_session, mgr_built, answers[1], answers[2])

MgrGetFeatureStore ==
    /\ mgr_built < MaxHandles
    /\ \E names \in NameArgs :
       \E got \in {SessionFor(mgr_feature_store, answers) :
                       answers \in SessionAnswers} :
       \E it \in {GetFeatureStore(mgr_feature_store, got, names[1], names[2],
                                   current, environ, ctor) :
                      current \in CurrentAnswers, environ \in Environs,
                      ctor \in CtorAnswers} :
         LET database == names[1]
             schema == names[2]
         IN  /\ mgr_session' = got.session
             /\ mgr_built' = mgr_built + Cardinality(got.created)
             /\ mgr_created' = mgr_created \cup got.created
             /\ mgr_feature_store' = it.feature_store
             /\ mgr_ret' = MgrCalled("get_feature_store", <<database, schema>>,
                                     it.out)
    /\ mgr_cursor' = "none"
    /\ mgr_query' = NotCalled
    /\ UNCHANGED <<mgr_connection, mgr_model_registry, mgr_closed,
                   mgr_returned, th_pc, th_local, mgrRest>>

\* get_model_registry, lines 240-265: 'database or os.getenv(...)'.
GetModelRegistry(model_registry, got, database, schema, environ, ctor) ==
    IF model_registry # NoneV
    THEN [model_registry |-> model_registry, out |-> Ok(model_registry)]
    ELSE IF ~got.out.ok
    THEN [model_registry |-> NoneV, out |-> got.out]
    ELSE IF ctor # "ok"
    THEN [model_registry |-> NoneV, out |-> Raise("Exception")]
    ELSE LET reg_database == IF database # NoneV THEN database
                             ELSE environ.database
             reg_schema == IF schema # NoneV THEN schema ELSE environ.schema
             registry == Registry(got.out.v, reg_database, reg_schema)
         IN  [model_registry |-> registry, out |-> Ok(registry)]

MgrGetModelRegistry ==
    /\ mgr_built < MaxHandles
    /\ \E names \in NameArgs :
       \E got \in {SessionFor(mgr_model_registry, answers) :
                       answers \in SessionAnswers} :
       \E it \in {GetModelRegistry(mgr_model_registry, got, names[1], names[2],
                                    environ, ctor) :
                      environ \in Environs, ctor \in CtorAnswers} :
         LET database == names[1]
             schema == names[2]
         IN  /\ mgr_session' = got.session
             /\ mgr_built' = mgr_built + Cardinality(got.created)
             /\ mgr_created' = mgr_created \cup got.created
             /\ mgr_model_registry' = it.model_registry
             /\ mgr_ret' = MgrCalled("get_model_registry", <<database, schema>>,
                                     it.out)
    /\ mgr_cursor' = "none"
    /\ mgr_query' = NotCalled
    /\ UNCHANGED <<mgr_connection, mgr_feature_store, mgr_closed,
                   mgr_returned, th_pc, th_local, mgrRest>>

\* close_connection, lines 305-318, on the four caches m: the session is
\* closed and forgotten, then the connection, then the two derived handles
\* are forgotten; a close() that raises ends the call there.
CloseConnection(m, session_close, connection_close) ==
    IF m.session # NoneV /\ session_close = "raise"
    THEN [m |-> m, closed |-> {}, out |-> Raise("Exception")]
    ELSE LET m1 == [m EXCEPT !.session = NoneV]
             closed1 == {m.session} \ {NoneV}
         IN  IF m.connection # NoneV /\ connection_close = "raise"
             THEN [m |-> m1, closed |-> closed1, out |-> Raise("Exception")]
             ELSE [m |-> [m1 EXCEPT !.connection = NoneV,
                                    !.feature_store = NoneV,
                                    !.model_registry = NoneV],
                   closed |-> closed1 \cup ({m.connection} \ {NoneV}),
                   out |-> Ok(NoneRec)]

Caches ==
    [session |-> mgr_session, connection |-> mgr_connection,
     feature_store |-> mgr_feature_store,
     model_registry |-> mgr_model_registry]

CloseAnswers == {"ok", "raise"}

\* A close_connection call.  The sessions created and returned are counted
\* from the last call that closed the session or found none.
MgrCloseConnection ==
    /\ \E session_close \in CloseAnswers, connection_close \in CloseAnswers :
         LET it == CloseConnection(Caches, session_close, connection_close) IN
            /\ mgr_session' = it.m.session
            /\ mgr_connection' = it.m.connection
            /\ mgr_feature_store' = it.m.feature_store
            /\ mgr_model_registry' = it.m.model_registry
            /\ mgr_closed' = mgr_closed \cup it.closed
            /\ mgr_created' = IF it.m.session = NoneV THEN {} ELSE mgr_created
            /\ mgr_returned' = IF it.m.session = NoneV THEN {} ELSE mgr_returned
            /\ mgr_ret' = MgrCalled("close_connection", <<>>, it.out)
    /\ mgr_cursor' = "none"
    /\ mgr_query' = NotCalled
    /\ UNCHANGED <<mgr_built, th_pc, th_local, mgrRest>>

\* An execute_query whose cursor is closed at the end of the try block.
ExecuteQueryClosingInTry(execute, fetch) ==
    IF execute = "ok" /\ fetch.ok
    THEN [out |-> Ok([success |-> TRUE, data |-> fetch.v,
                      row_count |-> Len(fetch.v)]),
          cursor |-> "closed"]
    ELSE [out |-> Ok([success |-> FALSE,
                      error |-> IF execute = "ok" THEN fetch.err ELSE execute,
                      data |-> NoneV]),
          cursor |-> "open"]

\* The try/except/finally of execute_query, lines 280-303, on an open
\* cursor: the value returned and the state the cursor is left in.
ExecuteQuery(execute, fetch) ==
    IF execute = "ok" /\ fetch.ok
    THEN [out |-> Ok([success |-> TRUE, data |-> fetch.v,
                      row_count |-> Len(fetch.v)]),
          cursor |-> "closed"]
    ELSE [out |-> Ok([success |-> FALSE,
                      error |-> IF execute = "ok" THEN fetch.err ELSE execute,
                      data |-> NoneV]),
          cursor |-> "closed"]

ExecuteAnswers == {"ok", "execute failed"}
FetchAnswers == {Ok(<<>>), Ok(<<"row1">>), Ok(<<"row1", "row2">>),
                 Raise("fetch failed")}
Params == {NoneV, Val("params")}

\* execute_query(query, params): the connection and the cursor are obtained
\* before the try, so their failure propagates.
MgrExecuteQuery ==
    /\ mgr_built < MaxHandles
    /\ \E params \in Params, connect \in ConnectAnswers,
          cursor_open \in {"ok", "error"}, execute \in ExecuteAnswers,
          fetch \in FetchAnswers :
         LET got == GetConnection(mgr_connection, mgr_built, connect) IN
            /\ mgr_connection' = got.connection
            /\ mgr_built' = got.built
            /\ IF ~got.out.ok \/ cursor_open # "ok"
               THEN /\ mgr_cursor' = "none"
                    /\ mgr_query' = NotCalled
                    /\ mgr_ret' = MgrCalled("execute_query", <<params>>,
                                            Raise("Exception"))
               ELSE /\ mgr_cursor' = ExecuteQuery(execute, fetch).cursor
                    /\ mgr_query' = [called |-> TRUE, execute |-> execute,
                                     fetch |-> fetch]
                    /\ mgr_ret' = MgrCalled("execute_query", <<params>>,
                                            ExecuteQuery(execute, fetch).out)
    /\ UNCHANGED <<mgr_session, mgr_feature_store, mgr_model_registry,
                   mgr_closed, mgr_created, mgr_returned, th_pc, th_local,
                   mgrRest>>

InitMgr ==
    /\ ModelConstructed("sql", MkConfig(0, 0, 0, 0))
    /\ NoLP
    /\ NoCalls
    /\ OthersIdle({"mgr"})
    /\ MgrIdle

NextMgr ==
    \/ MgrGetSession
    \/ MgrGetConnection
    \/ MgrGetFeatureStore
    \/ MgrGetModelRegistry
    \/ MgrExecuteQuery
    \/ MgrCloseConnection

SpecMgr == InitMgr /\ [][NextMgr]_vars

(***************************************************************************)
(* The global instance snowflake_manager (line 322) called from several    *)
(* threads.  get_session holds no lock, so between its statements another  *)
(* thread may run.  A thread's positions in get_session:                    *)
(*   "idle"    not in a call                                                *)
(*   "active"  'self._session is None' was true (line 64): about to try    *)
(*             get_active_session                                           *)
(*   "create"  no active session: about to call _create_snowpark_session   *)
(*   "store"   the new session is built (th_local), not yet assigned to    *)
(*             self._session (line 90)                                      *)
(*   "return"  about to evaluate 'return self._session'                     *)
(* close_connection runs as one step of another thread.                     *)
(***************************************************************************)
MaxThreads == 2

Threads == 1 .. MaxThreads

\* Line 64: if self._session is None
ThCheck(t) ==
    /\ th_pc[t] = "idle"
    /\ mgr_built < MaxHandles
    /\ th_pc' = [th_pc EXCEPT ![t] = IF mgr_session = NoneV THEN "active"
                                     ELSE "return"]
    /\ UNCHANGED <<mgr_connection, mgr_session, mgr_feature_store,
                   mgr_model_registry, mgr_built, mgr_closed, mgr_created,
                   mgr_returned, mgr_ret, mgr_cursor, mgr_query, th_local, mgrRest>>

\* Lines 66-85: self._session = get_active_session(), or on to the creation
ThActive(t) ==
    /\ th_pc[t] = "active"
    /\ \E active \in ActiveNow :
         IF active = "ok"
         THEN /\ mgr_session' = ActiveSession
              /\ th_pc' = [th_pc EXCEPT ![t] = "return"]
         ELSE /\ mgr_session' = mgr_session
              /\ th_pc' = [th_pc EXCEPT ![t] = "create"]
    /\ UNCHANGED <<mgr_connection, mgr_feature_store, mgr_model_registry,
                   mgr_built, mgr_closed, mgr_created, mgr_returned, mgr_ret,
                   mgr_cursor, mgr_query, th_local, mgrRest>>

\* Line 90, right-hand side: self._create_snowpark_session(); its errors
\* leave get_session (lines 91-96).
ThCreate(t) ==
    /\ th_pc[t] = "create"
    /\ \E create \in CreateAnswers :
         LET got == GetSession(NoneV, mgr_built, "error", create) IN
            /\ mgr_built' = mgr_built + Cardinality(got.created)
            /\ mgr_created' = mgr_created \cup got.created
            /\ th_local' = [th_local EXCEPT ![t] = got.session]
            /\ th_pc' = [th_pc EXCEPT ![t] = IF got.out.ok THEN "store"
                                             ELSE "idle"]
            /\ mgr_ret' = IF got.out.ok THEN mgr_ret
                          ELSE MgrCalled("get_session", <<t>>, got.out)
    /\ UNCHANGED <<mgr_connection, mgr_session, mgr_feature_store,
                   mgr_model_registry, mgr_closed, mgr_returned, mgr_cursor, mgr_query,
                   mgrRest>>

\* Line 90, the assignment to self._session
ThStore(t) ==
    /\ th_pc[t] = "store"
    /\ mgr_session' = th_local[t]
    /\ th_local' = [th_local EXCEPT ![t] = NoneV]
    /\ th_pc' = [th_pc EXCEPT ![t] = "return"]
    /\ UNCHANGED <<mgr_connection, mgr_feature_store, mgr_model_registry,
                   mgr_built, mgr_closed, mgr_created, mgr_returned, mgr_ret,
                   mgr_cursor, mgr_query, mgrRest>>

\* Lines 69 and 98: return self._session
ThReturn(t) ==
    /\ th_pc[t] = "return"
    /\ mgr_returned' = mgr_returned \cup ({mgr_session} \ {NoneV})
    /\ mgr_ret' = MgrCalled("get_session", <<t>>, Ok(mgr_session))
    /\ th_pc' = [th_pc EXCEPT ![t] = "idle"]
    /\ UNCHANGED <<mgr_connection, mgr_session, mgr_feature_store,
                   mgr_model_registry, mgr_built, mgr_closed, mgr_created,
                   mgr_cursor, mgr_query, th_local, mgrRest>>

InitThreads ==
    /\ ModelConstructed("sql", MkConfig(0, 0, 0, 0))
    /\ NoLP
    /\ NoCalls
    /\ OthersIdle({"mgr"})
    /\ mgr_connection = NoneV
    /\ mgr_session = NoneV
    /\ mgr_feature_store = NoneV
    /\ mgr_model_registry = NoneV
    /\ mgr_built = 0
    /\ mgr_closed = {}
    /\ mgr_created = {}
    /\ mgr_returned = {}
    /\ mgr_ret = NotCalled
    /\ mgr_cursor = "none"
    /\ mgr_query = NotCalled
    /\ th_pc = [t \in Threads |-> "idle"]
    /\ th_local = [t \in Threads |-> NoneV]

NextThreads ==
    \/ \E t \in Threads : ThCheck(t)
    \/ \E t \in Threads : ThActive(t)
    \/ \E t \in Threads : ThCreate(t)
    \/ \E t \in Threads : ThStore(t)
    \/ \E t \in Threads : ThReturn(t)
    \/ MgrCloseConnection

SpecThreads == InitThreads /\ [][NextThreads]_vars

(***************************************************************************)
(* The temporary files of predict (lines 345-417).  Each scenario that     *)
(* gets as far as a cost matrix writes the matrix to a CSV file and the    *)
(* configuration to a JSON file, both made with                            *)
(* NamedTemporaryFile(delete=False), runs the solver on them inside a      *)
(* try, and unlinks both in the finally.  What each step meets is the      *)
(* environment's choice:                                                   *)
(*   before      what precedes the files (marker, overrides, cost matrix): *)
(*               "ok" | "error"                                            *)
(*   csv, json   "ok" | "create_error" (no file was made) |                *)
(*               "write_error" (to_csv / json.dump raised on the file)     *)
(*   lp          "optimal" | "infeasible" | "construct_error" |            *)
(*               "solve_error" | "summary_error"                           *)
(*   unlink_csv, unlink_json   "ok" | "error"                              *)
(* A file is <<k, "csv">> or <<k, "json">>, k the position of the scenario.*)
(***************************************************************************)
TempCsv(k) == <<k, "csv">>
TempJson(k) == <<k, "json">>

\* Lines 411-417: os.unlink(temp_csv); os.unlink(temp_json) in one try
\* whose bare except passes.  The files left behind.
CleanUp(k, unlink_csv, unlink_json) ==
    IF unlink_csv # "ok" THEN {TempCsv(k), TempJson(k)}
    ELSE IF unlink_json # "ok" THEN {TempJson(k)}
    ELSE {}

\* One scenario, from the first statement of the loop body to the append
\* of its row: the kind of the row and the files of the scenario left.
ScenarioFiles(k, a) ==
    IF a.before # "ok" \/ a.csv = "create_error"
    THEN [result |-> "error", files |-> {}]
    ELSE IF a.csv = "write_error" \/ a.json = "create_error"
    THEN [result |-> "error", files |-> {TempCsv(k)}]
    ELSE IF a.json = "write_error"
    THEN [result |-> "error", files |-> {TempCsv(k), TempJson(k)}]
    ELSE [result |-> IF a.lp \in {"optimal", "infeasible"} THEN a.lp
                     ELSE "error",
          files |-> CleanUp(k, a.unlink_csv, a.unlink_json)]

ScenarioAnswers ==
    [before : {"ok", "error"},
     csv : {"ok", "create_error", "write_error"},
     json : {"ok", "create_error", "write_error"},
     lp : {"optimal", "infeasible", "construct_error", "solve_error",
           "summary_error"},
     unlink_csv : {"ok", "error"},
     unlink_json : {"ok", "error"}]

\* predict(input_data) on a frame of n scenarios
TmpPredictCall ==
    /\ tmp_pc = "idle"
    /\ \E n \in 0 .. MaxBatch : tmp_todo' = n
    /\ tmp_pc' = "running"
    /\ UNCHANGED <<tmp_files, tmp_rows, tmpRest>>

\* One iteration of the loop.
TmpScenario ==
    /\ tmp_pc = "running"
    /\ tmp_todo > 0
    /\ \E it \in {ScenarioFiles(Len(tmp_rows), a) : a \in ScenarioAnswers} :
          /\ tmp_files' = tmp_files \cup it.files
          /\ tmp_rows' = Append(tmp_rows, it)
    /\ tmp_todo' = tmp_todo - 1
    /\ UNCHANGED <<tmp_pc, tmpRest>>

\* return pd.DataFrame(results)
TmpPredictReturn ==
    /\ tmp_pc = "running"
    /\ tmp_todo = 0
    /\ tmp_pc' = "returned"
    /\ UNCHANGED <<tmp_todo, tmp_files, tmp_rows, tmpRest>>

InitTmp ==
    /\ ModelConstructed("sql", MkConfig(0, 0, 0, 0))
    /\ NoLP
    /\ NoCalls
    /\ OthersIdle({"tmp"})
    /\ TmpIdle

NextTmp == TmpPredictCall \/ TmpScenario \/ TmpPredictReturn

SpecTmp == InitTmp /\ [][NextTmp]_vars

(***************************************************************************)
(* Vocabulary of the properties.  Scenario i is input[i]; its row is       *)
(* results[i]; fetched[i] is what the cost source answered for it.         *)
(***************************************************************************)
Handled == 1..Len(results)

\* The identifier of scenario i: its scenario_name, or scenario_<position>
\* (counted from 0) when the frame has no such column.
ScenarioIdentifier(i) ==
    IF input[i].scenario_name = Absent
    THEN Val("scenario_" \o ToString(i - 1))
    ELSE input[i].scenario_name

IsErrorRow(r) == r.cost_matrix_source = "error" /\ r.error # Absent
IsNormalRow(r) == r.cost_matrix_source # "error" /\ r.error = Absent

AllFlowsZero(r) ==
    /\ r.shipment_a_to_1 = 0 /\ r.shipment_a_to_2 = 0
    /\ r.shipment_b_to_1 = 0 /\ r.shipment_b_to_2 = 0

\* The four ways the inputs of a scenario can be unusable.
BadTimestamp(i) ==
    LET ts == input[i].feature_timestamp
    IN IsVal(ts) /\ V(ts) \notin {"", "2024-01-15T00:00:00"}

MalformedConstraint(i) ==
    \E col \in CapacityColumns : input[i][col] \in {NaN, NoneV}

MissingCost(i) ==
    \/ mode = "sql" /\ \E col \in CostColumns : input[i][col] \in {Absent, NaN}
    \/ /\ mode = "python"
       /\ input[i].use_feature_store = Val(FALSE)
       /\ \A col \in CostColumns : input[i][col] = Absent

SourceUnavailable(i) == fetched[i].consulted /\ ~fetched[i].out.ok

InputError(i) ==
    BadTimestamp(i) \/ MalformedConstraint(i) \/ MissingCost(i) \/ SourceUnavailable(i)

\* The constraint set in force for a scenario whose inputs are usable: the
\* override where the frame has the column, the template's value otherwise.
InForce(i, col, templateValue) ==
    IF input[i][col] = Absent THEN templateValue ELSE V(input[i][col])

CapacityA(i) == InForce(i, "warehouse_a_capacity", base0.warehouses.Warehouse_A.capacity)
CapacityB(i) == InForce(i, "warehouse_b_capacity", base0.warehouses.Warehouse_B.capacity)
Demand1(i) == InForce(i, "customer_1_demand", base0.customers.Customer_1.demand)
Demand2(i) == InForce(i, "customer_2_demand", base0.customers.Customer_2.demand)

TotalCapacity(i) == CapacityA(i) + CapacityB(i)
TotalDemand(i) == Demand1(i) + Demand2(i)

HasZeroNode(i) ==
    CapacityA(i) = 0 \/ CapacityB(i) = 0 \/ Demand1(i) = 0 \/ Demand2(i) = 0

\* The solve ends Optimal and the summary then divides by zero.
SummaryFault(i) ==
    ~InputError(i) /\ HasZeroNode(i) /\ TotalDemand(i) <= TotalCapacity(i)

Fails(i) == InputError(i) \/ SummaryFault(i)

(***************************************************************************)
(* C1.  predict produces exactly one row per scenario handed to the loop,  *)
(* in input order: while it runs the number of rows equals the number of   *)
(* scenarios consumed, at the end it equals the length of the frame, and   *)
(* the i-th row carries the identifier of the i-th scenario, whether the   *)
(* scenario succeeded or failed.                                           *)
(***************************************************************************)
C1_OneRowPerScenarioInOrder ==
    /\ pc = "running" => Len(results) = pos /\ pos <= Len(input)
    /\ LoopDone => Len(results) = Len(input)
    /\ pc = "running" =>
          \A i \in Handled : results[i].scenario_name = ScenarioIdentifier(i)

C1_Witness ==
    /\ LoopDone /\ Len(input) = 3
    /\ input[1].scenario_name = Val("s3") /\ input[3].scenario_name = Val("s1")
    /\ \E i \in Handled : IsErrorRow(results[i])
    /\ \E i \in Handled : results[i].feasible

(***************************************************************************)
(* C2.  Failure isolation: predict is never left by an exception; a        *)
(* scenario whose processing raises (unusable timestamp, malformed         *)
(* constraint, missing cost, cost source unavailable, summary failure)     *)
(* gets an error row with its identifier and the error text; every other   *)
(* scenario of the batch gets a normal row, and the loop can always go on  *)
(* to the next scenario.  In particular, in a 3-scenario batch whose 2nd   *)
(* scenario alone fails, row 2 is an error row and rows 1 and 3 are        *)
(* normal.                                                                 *)
(***************************************************************************)
C2_FailureIsolation ==
    /\ pc # "raised"
    /\ pc = "running" /\ pos < Len(input) =>
          \E fetch \in AnswersFor(mode, input[pos + 1]) :
              ProcessScenario(base_config, input[pos + 1], pos, mode, fetch) # {}
    /\ pc = "running" =>
          \A i \in Handled :
              /\ Fails(i) => /\ IsErrorRow(results[i])
                             /\ results[i].scenario_name = ScenarioIdentifier(i)
              /\ ~Fails(i) => IsNormalRow(results[i])
    /\ LoopDone /\ Len(input) = 3 /\ Fails(2) /\ ~Fails(1) /\ ~Fails(3) =>
          /\ Len(results) = 3
          /\ IsErrorRow(results[2])
          /\ IsNormalRow(results[1]) /\ IsNormalRow(results[3])

C2_Witness ==
    /\ LoopDone /\ Len(input) = 3 /\ Len(results) = 3
    /\ SourceUnavailable(2) /\ ~Fails(1) /\ ~Fails(3)
    /\ results[2].error = Val("ExternalSourceError")
    /\ results[1].feasible /\ results[3].feasible

(***************************************************************************)
(* C3.  No cross-scenario leakage: the template held by the model is the   *)
(* one loaded at construction, after any number of predict calls, and the  *)
(* row of scenario i is a row that scenario i yields on its own from that  *)
(* template, its position and the answer of the cost source, whatever      *)
(* scenarios were processed before it.                                     *)
(***************************************************************************)
C3_NoCrossScenarioLeakage ==
    /\ base_config = base0
    /\ pc = "running" =>
          \A i \in Handled :
              \E it \in ProcessScenario(base0, input[i], i - 1, mode, fetched[i]) :
                  it.appended = <<results[i]>>

C3_Witness ==
    /\ pc = "running" /\ Len(results) = 2
    /\ input[1].warehouse_a_capacity = Val(50)
    /\ input[2].warehouse_a_capacity = Val(100)
    /\ base0.warehouses.Warehouse_A.capacity = 60
    /\ ~results[1].feasible /\ results[2].feasible

(***************************************************************************)
(* Vocabulary of the properties of TransportationLP: the plan held by the  *)
(* object against the cost matrix and the configuration it was built       *)
(* from.                                                                   *)
(***************************************************************************)
Assignments == [Warehouses -> [Customers -> 0..MaxQty]]

PlanCost(f) ==
    V(lp_cost.Warehouse_A.Customer_1) * f.Warehouse_A.Customer_1
        + V(lp_cost.Warehouse_A.Customer_2) * f.Warehouse_A.Customer_2
        + V(lp_cost.Warehouse_B.Customer_1) * f.Warehouse_B.Customer_1
        + V(lp_cost.Warehouse_B.Customer_2) * f.Warehouse_B.Customer_2

NonNegative(f) == \A w \in Warehouses : \A c \in Customers : f[w][c] >= 0

MeetsDemand(f) ==
    \A c \in Customers :
        f.Warehouse_A[c] + f.Warehouse_B[c] >= lp_config.customers[c].demand

WithinCapacity(f) ==
    \A w \in Warehouses :
        f[w].Customer_1 + f[w].Customer_2 <= lp_config.warehouses[w].capacity

IsPlan(f) == NonNegative(f) /\ MeetsDemand(f) /\ WithinCapacity(f)

LPTotalCapacity ==
    lp_config.warehouses.Warehouse_A.capacity + lp_config.warehouses.Warehouse_B.capacity

LPTotalDemand ==
    lp_config.customers.Customer_1.demand + lp_config.customers.Customer_2.demand

SummaryReturned ==
    /\ lp_ret.call = "get_solution_summary"
    /\ lp_ret.out.ok
    /\ ~IsNoneRec(lp_ret.out.v)

(***************************************************************************)
(* C4.  A plan reported as feasible (the solve ended Optimal) has every    *)
(* flow non-negative, for every customer an inflow of at least its         *)
(* demand, and for every warehouse an outflow of at most its capacity.     *)
(***************************************************************************)
C4_FeasiblePlanSatisfiesConstraints ==
    lp_status = "Optimal" =>
        NonNegative(lp_values) /\ MeetsDemand(lp_values) /\ WithinCapacity(lp_values)

C4_Witness ==
    /\ lp_status = "Optimal"
    /\ lp_ret.call = "solve"
    /\ lp_config.customers.Customer_1.demand = MaxQty
    /\ lp_config.customers.Customer_2.demand = 1
    /\ lp_config.warehouses.Warehouse_A.capacity = 1
    /\ lp_values.Warehouse_A.Customer_1 + lp_values.Warehouse_A.Customer_2 = 1
    /\ lp_values.Warehouse_B.Customer_1 > 0

(***************************************************************************)
(* C5.  When the solve ends Optimal, the objective value and the           *)
(* total_cost of the summary equal the sum over the four routes of unit    *)
(* cost x reported flow, and no assignment of non-negative flows meeting   *)
(* every demand within every capacity has a smaller sum.                   *)
(***************************************************************************)
C5_TotalCostIsMinimalSum ==
    /\ lp_status = "Optimal" =>
          /\ ObjectiveValue(lp_values, lp_model) = PlanCost(lp_values)
          /\ \A f \in Assignments : IsPlan(f) => PlanCost(f) >= PlanCost(lp_values)
    /\ SummaryReturned =>
          /\ lp_ret.out.v.shipments = lp_values
          /\ lp_ret.out.v.total_cost = PlanCost(lp_values)

C5_Witness ==
    /\ SummaryReturned
    /\ lp_ret.out.v.total_cost > 0
    /\ lp_cost.Warehouse_A.Customer_2 # lp_cost.Warehouse_B.Customer_1
    /\ \E f \in Assignments : IsPlan(f) /\ PlanCost(f) > lp_ret.out.v.total_cost

(***************************************************************************)
(* C6.  For non-negative unit costs, capacities and demands with total     *)
(* demand at most total capacity, solve() returns True, the status is      *)
(* Optimal and the total cost is at least 0.                               *)
(***************************************************************************)
C6_EnoughCapacityIsFeasible ==
    lp_ret.call = "solve" /\ LPTotalDemand <= LPTotalCapacity =>
        /\ lp_ret.out.ok
        /\ lp_ret.out.v
        /\ lp_status = "Optimal"
        /\ PlanCost(lp_values) >= 0

C6_Witness ==
    /\ lp_ret.call = "solve"
    /\ LPTotalDemand = LPTotalCapacity
    /\ LPTotalDemand = 2 * MaxQty
    /\ lp_ret.out.ok
    /\ lp_status = "Optimal"
    /\ PlanCost(lp_values) > 0

(***************************************************************************)
(* C7.  A scenario whose inputs are usable and whose total capacity is     *)
(* less than its total demand (e.g. capacities 50 and 40, demands 70 and   *)
(* 60) yields a normal row: no error text, a cost-source tag other than    *)
(* "error", feasible = false, the four flows zero and no total cost.       *)
(***************************************************************************)
C7_InfeasibleIsNormalResult ==
    \A i \in Handled :
        ~InputError(i) /\ TotalCapacity(i) < TotalDemand(i) =>
            /\ IsNormalRow(results[i])
            /\ ~results[i].feasible
            /\ AllFlowsZero(results[i])
            /\ results[i].optimal_cost = NoneV

C7_Witness ==
    \E i \in Handled :
        /\ ~InputError(i)
        /\ CapacityA(i) = 50 /\ CapacityB(i) = 40
        /\ Demand1(i) = 70 /\ Demand2(i) = 60
        /\ ~results[i].feasible
        /\ results[i].error = Absent

(***************************************************************************)
(* C8.  Every row predict emits, optimal, infeasible or error, is either   *)
(* feasible with a defined optimal cost, or not feasible with every        *)
(* shipment and utilization zero and the optimal cost absent.              *)
(***************************************************************************)
C8_RowIsPopulatedOrZeroed ==
    \A i \in Handled :
        LET r == results[i]
        IN \/ r.feasible /\ IsVal(r.optimal_cost)
           \/ /\ ~r.feasible
              /\ AllFlowsZero(r)
              /\ r.warehouse_a_utilization.num = 0
              /\ r.warehouse_b_utilization.num = 0
              /\ r.optimal_cost = NoneV

C8_Witness ==
    /\ LoopDone /\ Len(results) = 3
    /\ \E i \in Handled : results[i].feasible /\ results[i].shipment_a_to_1 > 0
    /\ \E i \in Handled : ~results[i].feasible /\ IsNormalRow(results[i])
    /\ \E i \in Handled : ~results[i].feasible /\ IsErrorRow(results[i])

(***************************************************************************)
(* C9.  The reference scenario: with capacities 100 and 80, demands 70     *)
(* and 60 and unit costs A->1 5, A->2 8, B->1 6, B->2 4, the row is        *)
(* feasible with optimal cost 590, flows A->1 = 70 and B->2 = 60 and the   *)
(* other two 0, utilization 70 for Warehouse_A and 75 for Warehouse_B.     *)
(***************************************************************************)
IsReferenceScenario(i) ==
    /\ ~InputError(i)
    /\ CapacityA(i) = 100 /\ CapacityB(i) = 80
    /\ Demand1(i) = 70 /\ Demand2(i) = 60
    /\ input[i].cost_a_to_1 = Val(5) /\ input[i].cost_a_to_2 = Val(8)
    /\ input[i].cost_b_to_1 = Val(6) /\ input[i].cost_b_to_2 = Val(4)

C9_ReferenceScenario ==
    \A i \in Handled :
        IsReferenceScenario(i) =>
            LET r == results[i]
            IN /\ IsNormalRow(r)
               /\ r.feasible
               /\ r.optimal_cost = Val(590)
               /\ r.shipment_a_to_1 = 70 /\ r.shipment_a_to_2 = 0
               /\ r.shipment_b_to_1 = 0 /\ r.shipment_b_to_2 = 60
               /\ r.warehouse_a_utilization.num = 70 * r.warehouse_a_utilization.den
               /\ r.warehouse_b_utilization.num = 75 * r.warehouse_b_utilization.den

C9_Witness ==
    \E i \in Handled :
        /\ IsReferenceScenario(i)
        /\ input[i].warehouse_a_capacity = Val(100)
        /\ results[i].optimal_cost = Val(590)

(***************************************************************************)
(* C10.  A scenario with a zero-capacity warehouse or a zero-demand        *)
(* customer for which a plan exists gets a normal feasible row, the        *)
(* utilization of a zero-capacity warehouse being 0.  The code does not    *)
(* behave so: get_solution_summary divides by the capacity and by the      *)
(* demand, the division raises and predict emits an error row.             *)
(***************************************************************************)
C10_ZeroNodeIsValidInput ==
    \A i \in Handled :
        ~InputError(i) /\ HasZeroNode(i) /\ TotalDemand(i) <= TotalCapacity(i) =>
            /\ IsNormalRow(results[i])
            /\ results[i].feasible
            /\ CapacityA(i) = 0 => results[i].warehouse_a_utilization.num = 0
            /\ CapacityB(i) = 0 => results[i].warehouse_b_utilization.num = 0

(***************************************************************************)
(* C11.  A scenario whose cost matrix lacks a value for some pair (the     *)
(* cost source is not consulted and a cost column is absent or empty) is   *)
(* rejected: it gets an error row and is never solved.  The code does not  *)
(* behave so in Python mode with use_feature_store false and some of the   *)
(* four columns present: the absent pairs take the defaults of row.get     *)
(* and the scenario is solved.                                             *)
(***************************************************************************)
LacksCostValue(i) ==
    /\ ~fetched[i].consulted
    /\ \E col \in CostColumns : input[i][col] \in {Absent, NaN}

C11_MissingPairIsRejected ==
    \A i \in Handled : LacksCostValue(i) => IsErrorRow(results[i])

(***************************************************************************)
(* C12.  A scenario whose constraint set holds a negative capacity or a    *)
(* negative demand fails with an error; it never gets an ordinary          *)
(* feasible or infeasible row.  The code does not behave so: nothing       *)
(* validates the values, the LP is formulated with them and the row is a   *)
(* normal one.                                                             *)
(***************************************************************************)
HasNegativeNode(i) ==
    CapacityA(i) < 0 \/ CapacityB(i) < 0 \/ Demand1(i) < 0 \/ Demand2(i) < 0

C12_NegativeValueIsRejected ==
    \A i \in Handled :
        ~InputError(i) /\ HasNegativeNode(i) => IsErrorRow(results[i])

(***************************************************************************)
(* C13.  When the nodes of the constraint set are not those of the cost    *)
(* matrix, create_model and solve fail with an error and the LP is never   *)
(* solved.  The code does not behave so: create_model takes its nodes      *)
(* from the cost matrix alone, so a customer or warehouse that only the    *)
(* constraint set names is left out of the LP, which is then solved.       *)
(***************************************************************************)
NodeSetsDiffer ==
    \/ DOMAIN lp_config.warehouses # DOMAIN lp_cost
    \/ \E w \in DOMAIN lp_cost : DOMAIN lp_config.customers # DOMAIN lp_cost[w]

C13_NodeMismatchIsRejected ==
    NodeSetsDiffer =>
        /\ lp_status = "NotSolved"
        /\ lp_ret.call \in {"create_model", "solve"} => ~lp_ret.out.ok

(***************************************************************************)
(* C14.  get_solution_summary returns None whenever the model has not      *)
(* been formulated, has been formulated but not solved, or was solved      *)
(* with a status other than Optimal; it produces a summary only when a     *)
(* formulated model holds the status Optimal, which only a solve leaves.   *)
(***************************************************************************)
C14_SummaryOnlyWhenOptimal ==
    /\ lp_status = "Optimal" => lp_model.formulated /\ lp_values # NoValues
    /\ lp_ret.call = "get_solution_summary" =>
          /\ ~lp_model.formulated \/ lp_status # "Optimal" =>
                lp_ret.out.ok /\ IsNoneRec(lp_ret.out.v)
          /\ SummaryReturned => lp_model.formulated /\ lp_status = "Optimal"

C14_Witness ==
    /\ lp_ret.call = "get_solution_summary"
    /\ lp_model.formulated
    /\ lp_status = "Infeasible"
    /\ lp_ret.out.ok
    /\ IsNoneRec(lp_ret.out.v)
    /\ LPTotalDemand > LPTotalCapacity

(***************************************************************************)
(* C15.  Two scenarios of one batch with identical inputs (the same cells  *)
(* apart from the name, the same answer of the cost source), each solved   *)
(* by a solver object of its own, get the same feasibility flag and the    *)
(* same total cost, even where the backend may return different plans.     *)
(***************************************************************************)
SameInputs(i, j) ==
    /\ fetched[i] = fetched[j]
    /\ \A col \in Columns \ {"scenario_name"} : input[i][col] = input[j][col]

UnknownModelType == agg_call.model_type \notin {"time", "composite"}
UnknownAggregation == agg_call.aggregation \notin Aggregations

C16_UnknownArgumentRaises ==
    agg_call.called /\ (UnknownModelType \/ UnknownAggregation) =>
        ~agg_call.out.ok /\ agg_call.out.err = "ValueError"

\* A known model_type with an unknown aggregation: the costs were computed,
\* and the call still raised.
C16_Witness ==
    /\ agg_call.called
    /\ ~UnknownModelType
    /\ UnknownAggregation
    /\ ~agg_call.out.ok

(***************************************************************************)
(* C17.  Aggregator round trip: for a route with exactly one shipment      *)
(* record, the entry of the returned matrix equals exactly that record's   *)
(* computed cost, under each of mean, median, min and max.                 *)
(***************************************************************************)
SoleRecordOfRoute(k) ==
    \A j \in 1..Len(data_file) :
        /\ data_file[j].warehouse = data_file[k].warehouse
        /\ data_file[j].customer = data_file[k].customer
        => j = k

C17_SingleRecordEntryIsItsCost ==
    agg_call.called /\ agg_call.out.ok =>
        \A k \in 1..Len(data_file) :
            SoleRecordOfRoute(k) =>
                agg_call.out.v[data_file[k].warehouse][data_file[k].customer]
                    = Val(CalculatedCost(agg_call.model_type, data_file[k]))

(***************************************************************************)
(* C18.  Effective constraint set: each of the four values used in the     *)
(* solve of a scenario is the scenario's override when it supplies one     *)
(* and the template's value when it does not; a scenario that leaves an    *)
(* override unset, also as an empty cell of a column that other scenarios  *)
(* of the batch fill, is solved with the template's value and does not     *)
(* fail for that.                                                          *)
(***************************************************************************)
Supplies(i, col) == IsVal(input[i][col])

Effective(i, col, templateValue) ==
    IF Supplies(i, col) THEN V(input[i][col]) ELSE templateValue

EffectiveConfig(i) ==
    MkConfig(
        Effective(i, "warehouse_a_capacity", base0.warehouses.Warehouse_A.capacity),
        Effective(i, "warehouse_b_capacity", base0.warehouses.Warehouse_B.capacity),
        Effective(i, "customer_1_demand", base0.customers.Customer_1.demand),
        Effective(i, "customer_2_demand", base0.customers.Customer_2.demand))

\* The row of scenario i shows the solve of `config`: the same flag, cost,
\* flows and utilization, or an error row when the summary cannot be built.
SolvedWith(i, config) ==
    LET cost == GetCostMatrix(mode, input[i], fetched[i]).v.cost_matrix
    IN  \E out \in BackendAnswers(CreateModel(cost, config)) :
            LET result == RunOptimization(cost, config, out)
            IN  IF ~result.ok THEN IsErrorRow(results[i])
                ELSE /\ IsNormalRow(results[i])
                     /\ results[i].feasible = result.v.feasible
                     /\ results[i].optimal_cost = result.v.optimal_cost
                     /\ results[i].shipment_a_to_1 = result.v.shipment_a_to_1
                     /\ results[i].shipment_a_to_2 = result.v.shipment_a_to_2
                     /\ results[i].shipment_b_to_1 = result.v.shipment_b_to_1
                     /\ results[i].shipment_b_to_2 = result.v.shipment_b_to_2
                     /\ results[i].warehouse_a_utilization
                            = result.v.warehouse_a_utilization
                     /\ results[i].warehouse_b_utilization
                            = result.v.warehouse_b_utilization

C18_EffectiveConstraintSet ==
    pc = "running" =>
        \A i \in Handled :
            ~BadTimestamp(i) /\ ~MissingCost(i) /\ ~SourceUnavailable(i) =>
                SolvedWith(i, EffectiveConfig(i))

(***************************************************************************)
(* C19.  Effective cost matrix in Python mode.  With use_feature_store     *)
(* true, every pair for which the scenario supplies a cost override has    *)
(* the override's value and every pair for which it supplies none has the  *)
(* value retrieved from the external cost source; with use_feature_store   *)
(* false the external cost source is not consulted at all.                 *)
(***************************************************************************)
PairColumn(w, c) ==
    IF w = "Warehouse_A"
    THEN IF c = "Customer_1" THEN "cost_a_to_1" ELSE "cost_a_to_2"
    ELSE IF c = "Customer_1" THEN "cost_b_to_1" ELSE "cost_b_to_2"

SuppliesCost(w, c) == IsVal(cost_row[PairColumn(w, c)])

C19_EffectiveCostMatrix ==
    cost_call.called =>
        /\ UseFeatureStore(cost_row) =>
              /\ cost_call.fetch.consulted
              /\ cost_call.fetch.out.ok =>
                    /\ cost_call.out.ok
                    /\ \A w \in Warehouses : \A c \in Customers :
                          cost_call.out.v.cost_matrix[w][c] =
                              IF SuppliesCost(w, c)
                              THEN cost_row[PairColumn(w, c)]
                              ELSE cost_call.fetch.out.v[w][c]
        /\ ~UseFeatureStore(cost_row) => ~cost_call.fetch.consulted

(***************************************************************************)
(* C20.  The cost-source tag of every result row tells how the cost        *)
(* matrix was obtained: "feature_store" iff it came from the external      *)
(* source with no override applied, "override" iff it came from the        *)
(* external source with at least one pair overridden, "override_only" iff  *)
(* it was built from the scenario's overrides without consulting the       *)
(* source, "sql_input" iff the model runs in SQL mode, and "error" iff     *)
(* the scenario took the error path.                                       *)
(***************************************************************************)
SourceTag(i) == results[i].cost_matrix_source

OverridesSomePair(i) == \E col \in CostColumns : input[i][col] # Absent

C20_SourceTagIdentifiesOrigin ==
    pc = "running" =>
        \A i \in Handled :
            /\ SourceTag(i) = "error" <=> Fails(i)
            /\ SourceTag(i) = "sql_input" <=> ~Fails(i) /\ mode = "sql"
            /\ SourceTag(i) = "feature_store" <=>
                    ~Fails(i) /\ fetched[i].consulted /\ ~OverridesSomePair(i)
            /\ SourceTag(i) = "override" <=>
                    ~Fails(i) /\ fetched[i].consulted /\ OverridesSomePair(i)
            /\ SourceTag(i) = "override_only" <=>
                    ~Fails(i) /\ mode = "python" /\ ~fetched[i].consulted

\* One Python-mode batch with three origins: overrides alone, the source
\* with overrides on top, and a failed retrieval.
C20_Witness ==
    /\ LoopDone /\ Len(results) = 3 /\ mode = "python"
    /\ SourceTag(1) = "override_only" /\ ~fetched[1].consulted
    /\ SourceTag(2) = "override" /\ fetched[2].consulted
    /\ SourceTag(3) = "error" /\ SourceUnavailable(3)

(***************************************************************************)
(* C21.  The cost matrix retrieved from the cost source for a scenario is  *)
(* the historical version selected by the scenario's point-in-time         *)
(* marker: a lookup with marker t returns the version in force at t, a     *)
(* lookup with no marker returns the latest version.                       *)
(***************************************************************************)
InForceAt(t) ==
    LET upto == {k \in 1..Len(fs_versions) : fs_versions[k].at <= t}
    IN  fs_versions[CHOOSE k \in upto : \A j \in upto : j <= k].matrix

LatestVersion == fs_versions[Len(fs_versions)].matrix

C21_LookupReturnsVersionInForce ==
    fs_call.called /\ fs_call.out.ok =>
        IF IsVal(fs_call.feature_timestamp)
        THEN fs_call.out.v = InForceAt(V(fs_call.feature_timestamp))
        ELSE fs_call.out.v = LatestVersion

(***************************************************************************)
(* C22.  Solver lifecycle.  solve() on an unformulated TransportationLP    *)
(* first creates the formulation from the current configuration and then   *)
(* solves it; once a formulation exists, solve() reuses it and never       *)
(* rebuilds it, so a change of capacities or demands in the configuration  *)
(* after formulation does not change the constraints a later solve() uses: *)
(* its result is a result of the formulation held, and only create_model   *)
(* gives a formulation of the changed values.                              *)
(***************************************************************************)
ConfigChangedSinceFormulation ==
    /\ lp_model.formulated
    /\ lp_model # CreateModel(lp_cost, lp_config)

C22_SolveReusesFormulation ==
    /\ [](lp_ret.call = "solve" =>
            /\ lp_model.formulated
            /\ \E out \in BackendSolve(lp_model) :
                  out.status = lp_status /\ out.values = lp_values)
    /\ [][lp_ret'.call = "solve" =>
            /\ lp_model.formulated => lp_model' = lp_model
            /\ ~lp_model.formulated => lp_model' = CreateModel(lp_cost, lp_config)]_vars
    /\ [][ConfigChangedSinceFormulation /\ ~ConfigChangedSinceFormulation' =>
            lp_ret'.call \in {"create_model", "config"}]_vars

\* A solve after the capacity was lowered: Optimal for the formulation
\* held, although the configuration no longer admits any plan.
C22_Witness ==
    /\ lp_ret.call = "solve"
    /\ ConfigChangedSinceFormulation
    /\ lp_status = "Optimal"
    /\ \A out \in BackendSolve(CreateModel(lp_cost, lp_config)) :
          out.status = "Infeasible"

(***************************************************************************)
(* C23.  Mode resolution.  A requested mode of 'python' or 'sql' is used   *)
(* as given; any other requested value resolves to 'sql' exactly when the  *)
(* context is detected as a UDF: an indicator variable is set, or          *)
(* obtaining the active session fails with a non-import error, the         *)
(* credentials are incomplete and the error text matches a UDF pattern.    *)
(* In every other case, a failure of the detection included, it resolves   *)
(* to 'python'.  The resolved mode is one of 'python' and 'sql' and is     *)
(* the execution_mode of every result row.                                 *)
(***************************************************************************)
DetectedAsUdf ==
    /\ env.probe_ok
    /\ \/ env.indicator
       \/ /\ env.session \in {"udf_error", "other_error"}
          /\ ~env.creds
          /\ env.session = "udf_error"

ResolvedMode ==
    IF requested \in {"python", "sql"} THEN requested
    ELSE IF DetectedAsUdf THEN "sql" ELSE "python"

C23_ModeResolution ==
    constructed # "no" =>
        /\ mode = ResolvedMode
        /\ mode \in {"python", "sql"}
        /\ \A i \in 1..Len(results) : results[i].execution_mode = mode

\* Auto mode without indicator or credentials, the session failing with a
\* UDF text: resolved to 'sql', and a row stamped with it.
C23_Witness ==
    /\ constructed = "yes" /\ requested = "auto"
    /\ ~env.indicator /\ env.session = "udf_error" /\ ~env.creds /\ env.probe_ok
    /\ mode = "sql"
    /\ Len(results) = 1 /\ results[1].execution_mode = "sql"

(***************************************************************************)
(* C24.  Feature-store handle: for every successfully constructed model    *)
(* and after any sequence of predict calls, the feature store manager is   *)
(* present if and only if the mode is 'python'.  In SQL mode the feature   *)
(* store is never initialized or consulted; in Python mode initialization  *)
(* is attempted exactly once, at construction, construction fails if it    *)
(* fails, and later predict calls never initialize it again.               *)
(***************************************************************************)
C24_HandleIffPythonMode ==
    /\ constructed = "yes" =>
          /\ feature_store_manager # NoneV <=> mode = "python"
          /\ mode = "python" => init_attempts = 1
    /\ constructed # "no" /\ mode = "sql" =>
          /\ init_attempts = 0
          /\ ~feature_store_initialized
          /\ \A i \in 1..Len(fetched) : ~fetched[i].consulted
    /\ constructed = "failed" <=>
          /\ init_attempts = 1 /\ mode = "python" /\ ~env.store_ok
          /\ feature_store_manager = NoneV

\* A Python-mode model that has consulted the source in a predict call,
\* the handle still from the one initialisation.
C24_Witness ==
    /\ constructed = "yes" /\ mode = "python"
    /\ Len(fetched) = 1 /\ fetched[1].consulted
    /\ feature_store_manager = TheManager /\ init_attempts = 1

(***************************************************************************)
(* C25.  Registration ordering in register_transportation_model: log_model *)
(* is called at most once, and only after the initial model was created,   *)
(* a local test prediction completed with a defined optimal cost, and the  *)
(* registry connection was obtained.  The model passed to log_model is     *)
(* the SQL-mode model whenever the SQL-mode test succeeded, and the        *)
(* auto-mode model only when the SQL-mode test failed and the auto-mode    *)
(* test succeeded.  If the initial creation fails, both tests fail, or     *)
(* the registry is unavailable, the function returns without registering   *)
(* and without raising.                                                    *)
(***************************************************************************)
RegPositions == {"start", "test_sql", "test_auto", "registry", "log", "returned"}

C25_RegistrationOrdering ==
    /\ reg_pc \in RegPositions
    /\ Len(reg_log) <= 1
    /\ reg_log # <<>> =>
          /\ reg_hist.initial = "ok"
          /\ reg_hist.sql = "ok" \/ reg_hist.auto = "ok"
          /\ IsVal(reg_hist.cost)
          /\ reg_hist.registry = "ok"
          /\ reg_hist.sql = "ok" => reg_log[1] = Model("sql", "sql")
          /\ reg_hist.sql # "ok" =>
                /\ reg_hist.sql = "failed" /\ reg_hist.auto = "ok"
                /\ reg_log[1] = Model("auto", reg_env.auto_mode)
    /\ reg_hist.sql = "ok" => reg_hist.auto = "none"
    /\ \/ reg_hist.initial = "failed"
       \/ reg_hist.sql = "failed" /\ reg_hist.auto = "failed"
       \/ reg_hist.registry = "failed"
       => reg_pc = "returned" /\ reg_log = <<>>

\* The SQL-mode test failed, the auto-mode test passed in Python mode with
\* the costs of the test input, and that model was registered.
C25_Witness ==
    /\ reg_pc = "returned"
    /\ reg_hist.sql = "failed" /\ reg_hist.auto = "ok"
    /\ reg_hist.cost = Val(1180)
    /\ reg_log = <<Model("auto", "python")>>

(***************************************************************************)
(* C26.  SnowflakeManager handle invariant: in every state reachable by    *)
(* get_session, get_connection, get_feature_store, get_model_registry and  *)
(* close_connection calls, failing calls included, a cached feature store  *)
(* or a cached registry implies a cached session; and right after a        *)
(* close_connection call the session, the connection, the feature store    *)
(* and the registry are all absent.                                        *)
(***************************************************************************)
NothingCached ==
    /\ mgr_session = NoneV
    /\ mgr_connection = NoneV
    /\ mgr_feature_store = NoneV
    /\ mgr_model_registry = NoneV

AfterCall(name) == mgr_ret # NotCalled /\ mgr_ret.call = name

C26_DerivedHandlesImplySession ==
    /\ mgr_feature_store # NoneV \/ mgr_model_registry # NoneV
          => mgr_session # NoneV
    /\ AfterCall("close_connection") => NothingCached

(***************************************************************************)
(* C27.  get_feature_store(database, schema) returns a feature store bound *)
(* to the database and schema passed in that call, also when an earlier    *)
(* call, with no close_connection in between, cached a store for other     *)
(* names.                                                                  *)
(***************************************************************************)
C27_StoreBoundToArguments ==
    AfterCall("get_feature_store") /\ mgr_ret.out.ok =>
        LET database == mgr_ret.args[1]
            schema == mgr_ret.args[2]
            store == mgr_ret.out.v
        IN  /\ database # NoneV => store[3] = database
            /\ schema # NoneV => store[4] = schema

(***************************************************************************)
(* C28.  Between two close_connection calls the global manager creates at  *)
(* most one Snowpark session, and every get_session call in that interval  *)
(* returns that same session, also when get_session is called from         *)
(* several threads at once.                                                *)
(***************************************************************************)
C28_OneSessionPerInterval ==
    /\ Cardinality(mgr_created) <= 1
    /\ Cardinality(mgr_returned) <= 1

(***************************************************************************)
(* C30.  execute_query reports a failing query as a value, not as an       *)
(* exception: when executing the query or fetching its rows fails it       *)
(* returns {success: False, error: text, data: None}; when both succeed it *)
(* returns {success: True, data: rows, row_count: number of rows}; in both *)
(* outcomes the cursor it opened is closed before it returns.              *)
(***************************************************************************)
QueryFailed ==
    mgr_query.execute # "ok" \/ ~mgr_query.fetch.ok

C30_QueryFailureIsAValue ==
    AfterCall("execute_query") /\ mgr_query.called =>
        /\ mgr_ret.out.ok
        /\ mgr_cursor = "closed"
        /\ QueryFailed =>
              /\ DOMAIN mgr_ret.out.v = {"success", "error", "data"}
              /\ mgr_ret.out.v.success = FALSE
              /\ mgr_ret.out.v.error \in {"execute failed", "fetch failed"}
              /\ mgr_ret.out.v.data = NoneV
        /\ ~QueryFailed =>
              /\ DOMAIN mgr_ret.out.v = {"success", "data", "row_count"}
              /\ mgr_ret.out.v.success = TRUE
              /\ mgr_ret.out.v.data = mgr_query.fetch.v
              /\ mgr_ret.out.v.row_count = Len(mgr_query.fetch.v)

\* The query ran and fetchall failed: the failure is returned and the
\* cursor is closed.
C30_Witness ==
    /\ AfterCall("execute_query")
    /\ mgr_query.called
    /\ mgr_query.execute = "ok"
    /\ mgr_query.fetch = Raise("fetch failed")
    /\ mgr_ret.out = Ok([success |-> FALSE, error |-> "fetch failed",
                         data |-> NoneV])
    /\ mgr_cursor = "closed"

(***************************************************************************)
(* C29.  Temporary-file hygiene in predict: for every scenario, whatever   *)
(* its outcome (optimal, infeasible, or an error raised while writing the  *)
(* files, constructing the solver, solving or summarizing), both of its    *)
(* temporary files have been deleted by the time its result row is         *)
(* appended; after predict returns, no temporary file it created remains.  *)
(***************************************************************************)
C29_TemporaryFilesDeleted ==
    /\ \A i \in DOMAIN tmp_rows : tmp_rows[i].files = {}
    /\ tmp_pc = "returned" => tmp_files = {}

====
